---- MODULE Spec2Model ----
(***************************************************************************)
(* A model of the word-guessing backend: game.py (GameManager, RunState,   *)
(* the difficulty model, normalize_word), the request handlers of main.py  *)
(* that mutate a run, and the ranking of semantic.py.                      *)
(*                                                                         *)
(* Strings are sequences of one-character strings, so that suffix tests,   *)
(* strip() and upper() are computed character by character.               *)
(***************************************************************************)
EXTENDS Integers, Sequences, FiniteSets, TLC

VARIABLES
    runs,                 \* GameManager.runs: the ids of the runs created so far
    rs,                   \* the RunState of the run under observation
    word_set,             \* GameManager.word_set
    normalized_word_set,  \* GameManager.normalized_word_set
    scope,                \* what the exploration covers: inputs, rewards, levels
    last,                 \* the last request handled and what it answered
    fn                    \* a pure function's call: its input and its result

vars == <<runs, rs, word_set, normalized_word_set, scope, last, fn>>

(***************************************************************************)
(* Bounds of the exploration.                                              *)
(***************************************************************************)
MaxLevel == 4          \* no operation advances a run past this level
MaxWordLevel == 2      \* the same, where the exploration is over the typed words
MaxScore == 2500       \* no win is explored that takes the score past this
MaxFnLevel == 20       \* levels the pure difficulty functions are applied to
MaxFnGuesses == 8      \* guess counts the score function is applied to
MaxWordLen == 6        \* length of the words normalize_word is applied to
MaxCatalog == 4        \* words of the catalogs a selection is made from
MaxNetLevel == 5       \* the same, where the only reward is the safety net
MaxHoardLevel == 6     \* the same, where every reward won is kept
MaxLapseLevel == 7     \* the same, where the rewards are the counters that last

(***************************************************************************)
(* Program constants (game.py).                                            *)
(***************************************************************************)
DEFAULT_MAX_GUESSES == 6
INVENTORY_CAPACITY == 3
\* int(os.getenv("BOSS_LEVEL_INTERVAL", "5")): the deployment's setting, explored
\* with a short interval so that a boss level is within MaxLevel.
BOSS_LEVEL_INTERVAL == 2
DEFAULT_SKIP_COOLDOWN_LEVELS == 3
EASY_WORD_LIMIT == 800
NEVER_SKIPPED == -999

DIFFICULTY_LABELS == <<"easy", "medium", "hard", "expert", "master", "legend">>
RANDOM_THEME_ID == "random"

(***************************************************************************)
(* Small helpers.                                                          *)
(***************************************************************************)
Max(a, b) == IF a >= b THEN a ELSE b
Min(a, b) == IF a <= b THEN a ELSE b
Range(s) == {s[i] : i \in 1..Len(s)}

\* The elements of the sequence s that are members of keep, in order.
RECURSIVE SelectIn(_, _)
SelectIn(s, keep) ==
    IF s = <<>> THEN <<>>
    ELSE IF Head(s) \in keep THEN <<Head(s)>> \o SelectIn(Tail(s), keep)
    ELSE SelectIn(Tail(s), keep)

(***************************************************************************)
(* Characters: str.upper(), str.strip(), str.isalpha().                    *)
(***************************************************************************)
UpperLetters ==
    {"A","B","C","D","E","F","G","H","I","J","K","L","M",
     "N","O","P","Q","R","S","T","U","V","W","X","Y","Z"}
LowerOf ==
    [c \in {"a","c","e","s","t","x"} |->
        CASE c = "a" -> "A" [] c = "c" -> "C" [] c = "e" -> "E"
          [] c = "s" -> "S" [] c = "t" -> "T" [] c = "x" -> "X"]
Whitespace == {" "}

UpperChar(c) == IF c \in DOMAIN LowerOf THEN LowerOf[c] ELSE c
RECURSIVE Upper(_)
Upper(w) == IF w = <<>> THEN <<>> ELSE <<UpperChar(Head(w))>> \o Upper(Tail(w))

RECURSIVE LStrip(_)
LStrip(w) == IF w # <<>> /\ Head(w) \in Whitespace THEN LStrip(Tail(w)) ELSE w
RECURSIVE RStrip(_)
RStrip(w) ==
    IF w # <<>> /\ w[Len(w)] \in Whitespace
    THEN RStrip(SubSeq(w, 1, Len(w) - 1)) ELSE w
Strip(w) == RStrip(LStrip(w))

IsAlpha(w) ==
    /\ w # <<>>
    /\ \A i \in 1..Len(w) : w[i] \in UpperLetters \cup DOMAIN LowerOf

EndsWith(w, suffix) ==
    /\ Len(w) >= Len(suffix)
    /\ SubSeq(w, Len(w) - Len(suffix) + 1, Len(w)) = suffix
DropLast(w, n) == SubSeq(w, 1, Len(w) - n)

(***************************************************************************)
(* normalize_word (game.py 46-102).                                        *)
(***************************************************************************)
IRREGULAR_PLURALS ==
    [w \in {<<"M","I","C","E">>, <<"G","E","E","S","E">>, <<"T","E","E","T","H">>,
            <<"F","E","E","T">>, <<"C","H","I","L","D","R","E","N">>,
            <<"M","E","N">>, <<"W","O","M","E","N">>, <<"P","E","O","P","L","E">>,
            <<"W","O","L","V","E","S">>, <<"L","E","A","V","E","S">>,
            <<"K","N","I","V","E","S">>} |->
        CASE w = <<"M","I","C","E">> -> <<"M","O","U","S","E">>
          [] w = <<"G","E","E","S","E">> -> <<"G","O","O","S","E">>
          [] w = <<"T","E","E","T","H">> -> <<"T","O","O","T","H">>
          [] w = <<"F","E","E","T">> -> <<"F","O","O","T">>
          [] w = <<"C","H","I","L","D","R","E","N">> -> <<"C","H","I","L","D">>
          [] w = <<"M","E","N">> -> <<"M","A","N">>
          [] w = <<"W","O","M","E","N">> -> <<"W","O","M","A","N">>
          [] w = <<"P","E","O","P","L","E">> -> <<"P","E","R","S","O","N">>
          [] w = <<"W","O","L","V","E","S">> -> <<"W","O","L","F">>
          [] w = <<"L","E","A","V","E","S">> -> <<"L","E","A","F">>
          [] w = <<"K","N","I","V","E","S">> -> <<"K","N","I","F","E">>]
PLURAL_EXCEPTIONS ==
    {<<"N","E","W","S">>, <<"S","E","R","I","E","S">>, <<"S","P","E","C","I","E","S">>}
PLURAL_S_ENDINGS == {<<"S","S">>, <<"U","S">>, <<"I","S">>}
PLURAL_ES_ENDINGS ==
    {<<"C","H","E","S">>, <<"S","H","E","S">>, <<"X","E","S">>, <<"Z","E","S">>,
     <<"S","E","S">>}

\* The folded candidates of a cleaned word, in the order the code appends them,
\* the cleaned word last (game.py 77-90).
PluralCandidates(cleaned) ==
    (IF Len(cleaned) > 3
     THEN (IF EndsWith(cleaned, <<"I","E","S">>)
           THEN << DropLast(cleaned, 3) \o <<"Y">> >> ELSE <<>>)
          \o (IF EndsWith(cleaned, <<"V","E","S">>)
              THEN << DropLast(cleaned, 3) \o <<"F">>,
                      DropLast(cleaned, 3) \o <<"F","E">> >> ELSE <<>>)
          \o (IF \E e \in PLURAL_ES_ENDINGS : EndsWith(cleaned, e)
              THEN << DropLast(cleaned, 2) >> ELSE <<>>)
          \o (IF /\ EndsWith(cleaned, <<"S">>)
                 /\ ~ \E e \in PLURAL_S_ENDINGS : EndsWith(cleaned, e)
              THEN << DropLast(cleaned, 1) >> ELSE <<>>)
          \o (IF EndsWith(cleaned, <<"E","S">>)
              THEN << DropLast(cleaned, 2) >> ELSE <<>>)
     ELSE <<>>)
    \o << cleaned >>

\* game.py 92-95: the non-empty candidates, each kept at its first occurrence.
RECURSIVE Dedupe(_, _)
Dedupe(cands, seen) ==
    IF cands = <<>> THEN seen
    ELSE IF Head(cands) # <<>> /\ Head(cands) \notin Range(seen)
         THEN Dedupe(Tail(cands), Append(seen, Head(cands)))
         ELSE Dedupe(Tail(cands), seen)

\* game.py 96-102: the first candidate other than the cleaned word that is a
\* known word, else the first candidate.
FirstKnown(deduped, cleaned, known) ==
    LET hits == {i \in 1..Len(deduped) : deduped[i] # cleaned /\ deduped[i] \in known}
    IN  IF known # {} /\ Len(deduped) > 1 /\ hits # {}
        THEN deduped[CHOOSE i \in hits : \A j \in hits : i <= j]
        ELSE deduped[1]

normalize_word(word, known) ==
    LET cleaned == Upper(Strip(word))
    IN  IF cleaned = <<>> THEN cleaned
        ELSE IF cleaned \in DOMAIN IRREGULAR_PLURALS THEN IRREGULAR_PLURALS[cleaned]
        ELSE IF cleaned \in PLURAL_EXCEPTIONS THEN cleaned
        ELSE FirstKnown(Dedupe(PluralCandidates(cleaned), <<>>), cleaned, known)

(***************************************************************************)
(* The difficulty model (game.py 112-143).  A band's ends are thousandths. *)
(***************************************************************************)
is_boss_level(level) == level > 0 /\ level % BOSS_LEVEL_INTERVAL = 0

level_tier(level) == Max(0, (level - 1) \div 3)

difficulty_label(level) ==
    IF is_boss_level(level) THEN "boss"
    ELSE DIFFICULTY_LABELS[Min(level_tier(level), Len(DIFFICULTY_LABELS) - 1) + 1]

difficulty_multiplier_falling(level) ==
    LET base == 1 + Max(0, 5 - level_tier(level))
    IN  IF is_boss_level(level) THEN base + 4 ELSE base
difficulty_multiplier(level) ==
    LET base == 1 + Min(level_tier(level), 5)
    IN  IF is_boss_level(level) THEN base + 4 ELSE base

difficulty_band(level) ==
    IF is_boss_level(level) THEN <<900, 1000>>
    ELSE LET tier == level_tier(level)
             target == Min(200 + tier * 120, 850)
             half == IF tier < 3 THEN 175 ELSE 125
         IN  << Max(0, target - half), Min(1000, target + half) >>

(***************************************************************************)
(* The catalog the process is started with.  WORDS is what load_words and  *)
(* the theme/random merges of main.py 176-191 produce; here it is a small  *)
(* list with a plural whose singular is not itself a catalog word.         *)
(***************************************************************************)
CAT == <<"C","A","T">>
CATS == <<"C","A","T","S">>
AX == <<"A","X">>
AXE == <<"A","X","E">>
AXES == <<"A","X","E","S">>
JAZZ == <<"J","A","Z","Z">>
NoWord == <<>>

WORDS == <<CAT, AXES>>

MID_LETTERS == {"C","U","M","W","F","G","Y","P","B"}
RARE_LETTERS == {"V","K","J","X","Q","Z"}
VOWELS == {"A","E","I","O","U"}

\* game.py 146-166.
word_difficulty_score(word) ==
    LET w == Upper(word)
        letter(i) == IF w[i] \in RARE_LETTERS THEN 3
                     ELSE IF w[i] \in MID_LETTERS THEN 2 ELSE 1
        repeat(i) == IF \E j \in 1..(i - 1) : w[j] = w[i] THEN 2 ELSE 0
        RECURSIVE Sum(_)
        Sum(i) == IF i = 0 THEN 0 ELSE Sum(i - 1) + letter(i) + repeat(i)
        vowel_count == Cardinality({i \in 1..Len(w) : w[i] \in VOWELS})
    IN  Sum(Len(w)) + (IF vowel_count <= 1 THEN 2 ELSE IF vowel_count >= 4 THEN 1 ELSE 0)

\* game.py 169-172, in a build without the wordfreq package (zipf_frequency is None).
word_frequency_score(word) == word_difficulty_score(word)

\* game.py 208-216.
RECURSIVE dedupe_preserve(_)
dedupe_preserve(words) ==
    IF words = <<>> THEN <<>>
    ELSE LET front == dedupe_preserve(SubSeq(words, 1, Len(words) - 1))
             w == words[Len(words)]
         IN  IF w \in Range(front) THEN front ELSE Append(front, w)

\* game.py 219-223.
load_easy_words(words) ==
    SubSeq(words, 1, Max(1, Min(EASY_WORD_LIMIT, Len(words))))

\* sorted(..., key=score) is stable: words of equal score keep their list order.
RECURSIVE SortByScore(_)
SortByScore(words) ==
    IF words = <<>> THEN <<>>
    ELSE LET rest == SortByScore(SubSeq(words, 1, Len(words) - 1))
             w == words[Len(words)]
             k == Cardinality({i \in 1..Len(rest) :
                                 word_frequency_score(rest[i]) <= word_frequency_score(w)})
         IN  SubSeq(rest, 1, k) \o <<w>> \o SubSeq(rest, k + 1, Len(rest))

\* game.py 337-344: an entry's percentile is the fraction num/den.
build_word_entries(words) ==
    LET scored == SortByScore(words)
        total == Len(scored)
    IN  [idx \in 1..total |->
            [word |-> scored[idx], score |-> word_frequency_score(scored[idx]),
             num |-> IF total > 1 THEN idx - 1 ELSE 1,
             den |-> IF total > 1 THEN total - 1 ELSE 1]]

\* GameManager.__init__ (game.py 322-328): words, easy_words and word_entries are
\* set at construction and never assigned again.
words == dedupe_preserve(WORDS)
easy_words == dedupe_preserve(load_easy_words(WORDS))
word_entries == build_word_entries(words)

\* game.py 346-347.
rebuild_normalized_word_set_stale(ws) == {normalize_word(w, Range(words)) : w \in Range(words)}
rebuild_normalized_word_set(ws) == {normalize_word(w, ws) : w \in ws}

\* round(n / 10) as Python rounds: to the nearest integer, a half to the even one.
RoundTenth(n) ==
    LET q == n \div 10
        r == n % 10
    IN  IF r > 5 THEN q + 1
        ELSE IF r < 5 THEN q
        ELSE IF q % 2 = 0 THEN q ELSE q + 1

InBand(entry, band) ==
    /\ band[1] * entry.den <= entry.num * 1000
    /\ entry.num * 1000 <= band[2] * entry.den

\* game.py 354-367: the words random.choice may return for a level, given the
\* manager's word_entries and easy_words.
SelectWord_any(level, entries, easy) == {e.word : e \in Range(entries)}
SelectWord(level, entries, easy) ==
    IF difficulty_label(level) = "easy" /\ easy # <<>>
    THEN Range(easy)
    ELSE IF is_boss_level(level)
    THEN LET top_count == Max(1, RoundTenth(Len(entries)))
         IN  {entries[i].word : i \in (Len(entries) - top_count + 1)..Len(entries)}
    ELSE LET band == difficulty_band(level)
             candidates == {e.word : e \in {x \in Range(entries) : InBand(x, band)}}
         IN  IF candidates = {} THEN {e.word : e \in Range(entries)}
             ELSE candidates

select_word_for_level(level) == SelectWord(level, word_entries, easy_words)

(***************************************************************************)
(* The external collaborators: the word provider, the validation oracle    *)
(* and the embedding model.                                                *)
(***************************************************************************)
THEMES == <<"nature", "food", "sports", "tech", "music", "random">>
DEFAULT_THEME_ID == THEMES[1]

is_random_theme(theme_id) == theme_id = RANDOM_THEME_ID

\* main.py 503-522: the catalog words that pass _is_random_concrete_word, each
\* normalized (AXES normalizes to AX, which is shorter than MIN_WORD_LEN).
RANDOM_WORD_POOL == {CAT}
\* The words a theme's bank may hold (main.py 704-718).
THEME_BANK_WORDS == {CATS}
\* The words the dictionary oracle accepts (main.py 1064-1102).
ORACLE_WORDS == {AXE}

\* main.py 802-810: what generate_word may return; NoWord is "no themed word".
generate_word(theme_id) ==
    IF theme_id # "" /\ is_random_theme(theme_id)
    THEN IF RANDOM_WORD_POOL # {} THEN RANDOM_WORD_POOL ELSE {NoWord}
    ELSE IF theme_id # "" THEN THEME_BANK_WORDS \cup {NoWord}
    ELSE {NoWord}

\* The embedding model: every vector has Euclidean length 5, so a cosine
\* similarity is the dot product over 25.
Embed(word) ==
    LET w == Upper(word)
    IN  CASE w = CAT -> <<5, 0>>
          [] w = CATS -> <<4, 3>>
          [] w = AX -> <<0, 5>>
          [] w = AXE -> <<3, 4>>
          [] w = AXES -> <<-3, 4>>
          [] w = JAZZ -> <<-4, -3>>
          [] OTHER -> <<0, -5>>
Dot(u, v) == u[1] * v[1] + u[2] * v[2]
EXACT_SIMILARITY == 25

\* np.sort: the values of a sequence in ascending order.
RECURSIVE SortAscending(_)
SortAscending(values) ==
    IF values = <<>> THEN <<>>
    ELSE LET rest == SortAscending(Tail(values))
             k == Cardinality({i \in 1..Len(rest) : rest[i] < Head(values)})
         IN  SubSeq(rest, 1, k) \o <<Head(values)>> \o SubSeq(rest, k + 1, Len(rest))

\* np.searchsorted(sorted, value, side="left"): the number of entries before the
\* first one that is not less than value.
SearchSortedLeft(sorted, value) ==
    LET at == {i \in 1..Len(sorted) : sorted[i] >= value}
    IN  IF at = {} THEN Len(sorted) ELSE (CHOOSE i \in at : \A j \in at : i <= j) - 1

\* The key of the per-secret and per-guess caches: word.lower().
CacheKey(word) == Upper(word)
NoSecretCache == [key \in {} |-> <<>>]

\* semantic.py 68-76: the index built for a secret.
NewSecretIndex(secret) ==
    LET secret_emb == Embed(secret)
    IN  [secret_embedding |-> secret_emb,
         sorted_neg_similarities |->
             SortAscending([i \in 1..Len(WORDS) |-> 0 - Dot(Embed(WORDS[i]), secret_emb)])]

\* self._secret_cache[key] = index.
CacheWith(cache, key, index) ==
    [k \in DOMAIN cache \cup {key} |-> IF k = key THEN index ELSE cache[k]]

\* semantic.py 64-79: the index of a secret and the cache after the call; the index
\* of a cached key is returned as it was stored.
build_secret_index_any(secret, cache) ==
    IF DOMAIN cache # {}
    THEN [index |-> cache[CHOOSE key \in DOMAIN cache : TRUE], cache |-> cache]
    ELSE [index |-> NewSecretIndex(secret),
          cache |-> CacheWith(cache, CacheKey(secret), NewSecretIndex(secret))]
build_secret_index(secret, cache) ==
    IF CacheKey(secret) \in DOMAIN cache
    THEN [index |-> cache[CacheKey(secret)], cache |-> cache]
    ELSE [index |-> NewSecretIndex(secret),
          cache |-> CacheWith(cache, CacheKey(secret), NewSecretIndex(secret))]

\* semantic.py 81-88: the result <<rank, similarity>> and the cache after the call.
ranker_rank_guess(guess, secret, cache) ==
    IF Upper(Strip(guess)) = Upper(Strip(secret))
    THEN [out |-> <<1, EXACT_SIMILARITY>>, cache |-> cache]
    ELSE LET built == build_secret_index(secret, cache)
             similarity == Dot(built.index.secret_embedding, Embed(guess))
         IN  [out |-> <<1 + SearchSortedLeft(built.index.sorted_neg_similarities,
                                             0 - similarity),
                        similarity>>,
              cache |-> built.cache]

\* main.py 565-568: the <<rank, similarity>> the manager is given; a run does not
\* observe the ranker's cache.
rank_guess(guess, secret) == ranker_rank_guess(guess, secret, NoSecretCache).out

(***************************************************************************)
(* RunState (game.py 249-310).  None is 0 for a rank and NoWord for a      *)
(* word; a reward is its definition id (its instance id is fresh for each  *)
(* instance, so selecting by instance id is selecting by position).        *)
(***************************************************************************)
NewRunState(theme_id) ==
    [level |-> 1, secret |-> NoWord, theme_id |-> theme_id,
     pending_theme_choice |-> FALSE, theme_options |-> {},
     guesses |-> <<>>, best_rank |-> 0, score |-> 0, last_score_delta |-> 0,
     difficulty |-> "easy", boss_level |-> FALSE, completed_levels |-> 0,
     inventory |-> <<>>, pending_powerups |-> <<>>,
     similarity_reveal_remaining |-> 0,
     skip_cooldown_reduction_levels |-> 0, skip_cooldown_reduction_value |-> 0,
     failed_flag |-> FALSE, no_powerup_reward |-> FALSE,
     anchor_word |-> NoWord, anchor_rank |-> 0,
     momentum_bonus_active |-> FALSE, momentum_bonus_value |-> 0,
     skip_insurance_active |-> FALSE, safety_net_levels |-> 0,
     expanded_choice_levels |-> 0,
     last_skip_level |-> NEVER_SKIPPED,
     skip_cooldown_levels |-> DEFAULT_SKIP_COOLDOWN_LEVELS]

\* RunState.won, failed, is_random_mode (game.py 284-294).
won(r) == \E i \in 1..Len(r.guesses) : r.guesses[i].word = r.secret
failed(r) == r.failed_flag
is_random_mode(r) == is_random_theme(r.theme_id)

\* game.py 304-310.
skip_in_levels(r) ==
    IF is_random_mode(r) THEN 0
    ELSE LET cooldown == Max(0, r.skip_cooldown_levels - r.skip_cooldown_reduction_value)
             diff == r.level - r.last_skip_level
         IN  Max(0, cooldown - diff + 1)

\* game.py 296-302.
skip_available(r) ==
    IF is_random_mode(r) THEN TRUE
    ELSE IF r.boss_level THEN FALSE
    ELSE skip_in_levels(r) = 0

\* game.py 349-352.
difficulty_level(r) == IF is_random_mode(r) THEN 1 ELSE r.completed_levels + 1

\* game.py 676-683: the word set after add_word(word).
add_word(word, ws) ==
    LET cleaned == Upper(Strip(word))
    IN  IF ~IsAlpha(cleaned) \/ cleaned \in ws THEN ws ELSE ws \cup {cleaned}

\* game.py 672-674.
is_valid_guess_any(guess, ws, nws) == TRUE
is_valid_guess(guess, ws, nws) == normalize_word(guess, ws) \in nws

\* game.py 369-392: the secrets _new_secret may return, each with the word set it
\* leaves (a provider's word is added to the word set, a catalog word is not).
new_secret(r, level, ws) ==
    LET offered == {Upper(Strip(c)) : c \in generate_word(r.theme_id)}
        themed == {c \in offered : c # NoWord /\ IsAlpha(c)}
    IN  {[secret |-> normalize_word(c, ws), ws |-> add_word(normalize_word(c, ws), ws)] :
            c \in themed}
        \cup (IF offered \ themed # {}
              THEN {[secret |-> normalize_word(w, ws), ws |-> ws] :
                      w \in select_word_for_level(level)}
              ELSE {})

\* game.py 394-404.
apply_level_settings(r) ==
    IF is_random_mode(r)
    THEN [r EXCEPT !.difficulty = "random", !.boss_level = FALSE,
                   !.skip_cooldown_levels = 0,
                   !.skip_cooldown_reduction_levels = 0,
                   !.skip_cooldown_reduction_value = 0]
    ELSE [r EXCEPT !.difficulty = difficulty_label(difficulty_level(r)),
                   !.boss_level = is_boss_level(difficulty_level(r))]

\* game.py 492-519: the outcomes [rs, ws] of _reset_random_round.
reset_random_round_reseed(r, ws) ==
    {[rs |-> [r EXCEPT !.secret = o.secret], ws |-> o.ws] :
        o \in new_secret([r EXCEPT !.level = 1, !.completed_levels = 0], 1, ws)}
reset_random_round(r, ws) ==
    {[rs |-> [r EXCEPT !.level = 1, !.completed_levels = 0, !.secret = o.secret,
                       !.guesses = <<>>, !.best_rank = 0,
                       !.pending_powerups = <<>>, !.pending_theme_choice = FALSE,
                       !.theme_options = {}, !.last_score_delta = 0,
                       !.similarity_reveal_remaining = 0, !.score = 0,
                       !.failed_flag = FALSE, !.no_powerup_reward = FALSE,
                       !.anchor_word = NoWord, !.anchor_rank = 0,
                       !.momentum_bonus_active = FALSE, !.momentum_bonus_value = 0,
                       !.skip_insurance_active = FALSE, !.safety_net_levels = 0,
                       !.expanded_choice_levels = 0,
                       !.last_skip_level = NEVER_SKIPPED,
                       !.skip_cooldown_levels = 0,
                       !.skip_cooldown_reduction_levels = 0,
                       !.skip_cooldown_reduction_value = 0,
                       !.boss_level = FALSE, !.difficulty = "random"],
      ws |-> o.ws] :
        o \in new_secret([r EXCEPT !.level = 1, !.completed_levels = 0], 1, ws)}

\* game.py 599-600: the completed levels after an advance.
CompletedAfter_every(r, completed) == r.completed_levels + 1
CompletedAfter(r, completed) ==
    IF completed THEN r.completed_levels + 1 ELSE r.completed_levels

\* game.py 617-618: the levels a safety net has left after an advance.
SafetyNetAfter_kept(r) == r.safety_net_levels
SafetyNetAfter(r) ==
    IF r.safety_net_levels > 0 THEN r.safety_net_levels - 1 ELSE r.safety_net_levels

\* game.py 603-614: the fields of a level, as the next level starts.
ClearLevel_anchored(r) ==
    [r EXCEPT !.guesses = <<>>, !.best_rank = 0, !.pending_powerups = <<>>,
              !.pending_theme_choice = FALSE, !.theme_options = {},
              !.last_score_delta = 0, !.failed_flag = FALSE,
              !.no_powerup_reward = FALSE]
ClearLevel(r) ==
    [r EXCEPT !.guesses = <<>>, !.best_rank = 0, !.pending_powerups = <<>>,
              !.pending_theme_choice = FALSE, !.theme_options = {},
              !.last_score_delta = 0, !.failed_flag = FALSE,
              !.no_powerup_reward = FALSE,
              !.anchor_word = NoWord, !.anchor_rank = 0,
              !.momentum_bonus_active = FALSE, !.momentum_bonus_value = 0]

\* game.py 595-625: the outcomes [rs, ws] of _advance_level.
advance_level(r, completed, ws) ==
    IF is_random_mode(r) THEN reset_random_round(r, ws)
    ELSE LET r1 == [r EXCEPT !.completed_levels = CompletedAfter(r, completed),
                             !.level = r.level + 1]
             reduction == IF r.skip_cooldown_reduction_levels > 0
                          THEN r.skip_cooldown_reduction_levels - 1 ELSE 0
         IN  {[rs |-> apply_level_settings(
                        [ClearLevel(r1) EXCEPT
                                   !.secret = o.secret,
                                   !.skip_insurance_active =
                                       IF completed THEN FALSE ELSE r.skip_insurance_active,
                                   !.safety_net_levels = SafetyNetAfter(r),
                                   !.expanded_choice_levels =
                                       Max(0, r.expanded_choice_levels),
                                   !.skip_cooldown_reduction_levels = reduction,
                                   !.skip_cooldown_reduction_value =
                                       IF r.skip_cooldown_reduction_levels > 0
                                          /\ reduction <= 0
                                       THEN 0 ELSE r.skip_cooldown_reduction_value]),
               ws |-> o.ws] :
                 o \in new_secret(r1, difficulty_level(r1), ws)}

\* game.py 627-633: the outcomes [rs, ws] of reroll_target.
reroll_target(r, ws) ==
    {[rs |-> [r EXCEPT !.secret = o.secret, !.guesses = <<>>, !.best_rank = 0,
                       !.anchor_word = NoWord, !.anchor_rank = 0,
                       !.no_powerup_reward = TRUE],
      ws |-> o.ws] :
        o \in new_secret(r, difficulty_level(r), ws)}

\* game.py 685-689.
score_for_win_signed(level, guesses_used) ==
    (100 * difficulty_multiplier(level))
        + ((DEFAULT_MAX_GUESSES - guesses_used) * 10 * difficulty_multiplier(level))
score_for_win(level, guesses_used) ==
    LET base == 100
        multiplier == difficulty_multiplier(level)
        guess_bonus == Max(0, DEFAULT_MAX_GUESSES - guesses_used) * 10
    IN  (base * multiplier) + (guess_bonus * multiplier)

(***************************************************************************)
(* The reward catalog and the roll (game.py 638-670).                      *)
(***************************************************************************)
POWERUP_POOL ==
    <<"semantic_direction", "concept_neighbor", "functional_hint", "descriptor_hint",
      "undo_guess", "reroll_target", "anchor_guess", "similarity_reveal",
      "comparator", "gradient_scan", "micro_freeze", "slow_drain", "momentum_bonus",
      "skip_refresh", "skip_insurance", "skip_cooldown_reducer", "expanded_choice",
      "reroll_rewards", "safety_net">>

\* The "value" of a catalog entry (game.py 640-658).
POWERUP_VALUE(id) ==
    CASE id = "similarity_reveal" -> 3
      [] id = "micro_freeze" -> 2
      [] id = "slow_drain" -> 10
      [] id = "momentum_bonus" -> 6
      [] id = "safety_net" -> 3
      [] OTHER -> 1

\* game.py 662-664: the catalog without the definitions the inventory holds.
RollPool(r) == SelectIn(POWERUP_POOL, Range(POWERUP_POOL) \ Range(r.inventory))

\* game.py 665-666: the count of a roll that is given none.
default_roll_count_plain(r) == 3
default_roll_count(r) == IF r.expanded_choice_levels > 0 THEN 4 ELSE 3

\* game.py 669: the lists random.sample may return.  Of the samples of n ids of the
\* pool, the exploration takes those made of n ids that follow each other
\* (cyclically) in the pool from an id of domain on, each listed in catalog order.
Sample(pool, n, domain) ==
    LET focus == {k \in 1..Len(pool) : pool[k] \in domain}
        starts == IF focus = {} THEN {1} ELSE focus
        window(k) == {pool[((k + i - 1) % Len(pool)) + 1] : i \in 0..(n - 1)}
    IN  IF n = 0 THEN {<<>>} ELSE {SelectIn(pool, window(k)) : k \in starts}

\* game.py 661-670: the outcomes [picks, rs] of _roll_powerups.
roll_powerups(r, count, consume_expanded, domain) ==
    LET pool == RollPool(r)
        r1 == IF consume_expanded /\ r.expanded_choice_levels > 0
              THEN [r EXCEPT !.expanded_choice_levels =
                                 Max(0, r.expanded_choice_levels - 1)]
              ELSE r
    IN  {[picks |-> picks, rs |-> r1] : picks \in Sample(pool, Min(count, Len(pool)), domain)}

\* main.py 599-607: the option sets _theme_options may return; of the samples
\* random.sample may draw, those that hold the themes of THEME_FOCUS.
THEME_FOCUS == {"sports", "tech"}
theme_options(current_theme_id) ==
    LET options == Range(THEMES) \ {current_theme_id, RANDOM_THEME_ID}
    IN  IF Cardinality(options) <= 3 THEN {options}
        ELSE {S \in SUBSET options : Cardinality(S) = 3 /\ THEME_FOCUS \subseteq S}

(***************************************************************************)
(* Inputs of the requests.                                                 *)
(***************************************************************************)
GuessInputs ==
    {CAT, CATS, AXES, AXE, JAZZ, <<" ","c","a","t">>, <<"C","4","T">>, NoWord}
PlainGuesses == {CAT, <<"C","4","T">>}
StartThemes == {"", "nature", "random", "bogus"}
ChosenThemes == {"food", "random", "bogus"}
\* The reward ids a run's rolls start from and its player picks.
ControlRewards == {"undo_guess", "reroll_target", "safety_net"}
WordRewards == {"undo_guess"}
EconomyRewards == {"undo_guess", "expanded_choice", "reroll_rewards", "safety_net"}
\* Explorations over MaxLevel levels with plain guesses, of the rewards that act on
\* the level and of those that act on the offers, and one of the typed words over
\* MaxWordLevel levels.
ControlScope == [words |-> PlainGuesses, rewards |-> ControlRewards, levels |-> MaxLevel]
RewardScope == [words |-> PlainGuesses, rewards |-> EconomyRewards, levels |-> MaxLevel]
WordScope == [words |-> GuessInputs, rewards |-> WordRewards, levels |-> MaxWordLevel]

NoCall == [f |-> "none", level |-> 0, guesses |-> 0, out |-> 0]

\* What `last` holds after a request that leaves the run as r and the word set as
\* ws: the request, its answer and, of a guess the manager took, whether the typed
\* word was its own normal form ("plain") or another form of it ("variant").  A
\* request that is answered with an error or with "nothing to do" and changes
\* nothing leaves `last` as it is: such a step is a stuttering step.
QuietAnswers == {"400", "invalid", "none", "unavailable", "disabled", "no_gate"}
Observed(op, res, form, r, ws) ==
    IF res \in QuietAnswers /\ r = rs /\ ws = word_set THEN last
    ELSE [op |-> op, res |-> res, form |-> form]
Answer(op, res, r, ws) == Observed(op, res, "", r, ws)

\* An advance is explored up to MaxLevel.
Advance(r, completed, ws) ==
    IF ~is_random_mode(r) /\ r.level >= scope.levels THEN {}
    ELSE advance_level(r, completed, ws)

\* main.py 764-799: the fields of the snapshot that random mode blanks, with the
\* level and the score.
run_state_to_dict(r) ==
    [level |-> r.level,
     score |-> r.score,
     pending_powerups |-> IF is_random_mode(r) THEN <<>> ELSE r.pending_powerups,
     pending_theme_choice |-> IF is_random_mode(r) THEN FALSE ELSE r.pending_theme_choice,
     theme_options |-> IF is_random_mode(r) THEN {} ELSE r.theme_options,
     inventory |-> IF is_random_mode(r) THEN <<>> ELSE r.inventory,
     random_mode |-> is_random_mode(r)]

\* The manager after construction (game.py 314-332): no run yet.
Setup(sc) ==
    /\ runs = {}
    /\ rs = NewRunState("")
    /\ word_set = Range(words)
    /\ normalized_word_set = rebuild_normalized_word_set(Range(words))
    /\ scope = sc
    /\ last = [op |-> "init", res |-> "", form |-> ""]

Init == Setup(ControlScope) /\ fn = NoCall
InitRewards == Setup(RewardScope) /\ fn = NoCall
InitWords == Setup(WordScope) /\ fn = NoCall
\* A call of _score_for_win to be made, with any level and any number of guesses.
InitScore ==
    /\ Setup(ControlScope)
    /\ fn \in {[f |-> "none", level |-> l, guesses |-> g, out |-> 0] :
                 l \in 1..MaxFnLevel, g \in 0..MaxFnGuesses}

\* The catalog after a handler that leaves the word set ws.
Catalog(ws) ==
    /\ word_set' = ws
    /\ normalized_word_set' =
         IF ws = word_set THEN normalized_word_set ELSE rebuild_normalized_word_set(ws)

(***************************************************************************)
(* POST /api/run/start (main.py 1119-1129, game.py 406-412).               *)
(***************************************************************************)
StartRun(theme) ==
    /\ runs = {}
    /\ LET requested == IF theme = "" THEN DEFAULT_THEME_ID ELSE theme
           theme_id == IF requested \in Range(THEMES) THEN requested ELSE DEFAULT_THEME_ID
           r == NewRunState(theme_id)
       IN  \E o \in new_secret(r, difficulty_level(r), word_set) :
             /\ rs' = apply_level_settings([r EXCEPT !.secret = o.secret])
             /\ Catalog(o.ws)
    /\ runs' = {1}
    /\ last' = Answer("start", "started", rs', word_set')
    /\ UNCHANGED <<scope, fn>>

(***************************************************************************)
(* GameManager.submit_guess (game.py 419-490): the outcomes [rs, ws, res]. *)
(***************************************************************************)
WithThemeGate(r) ==
    {[r EXCEPT !.pending_theme_choice = TRUE, !.theme_options = opts] :
        opts \in theme_options(r.theme_id)}

\* game.py 467-490: what follows an accepted guess that wins.
WinOutcomes(r, ws, domain) ==
    IF is_random_mode(r) THEN {[rs |-> r, ws |-> ws, res |-> "won"]}
    ELSE IF r.no_powerup_reward
    THEN LET r1 == [r EXCEPT !.no_powerup_reward = FALSE]
         IN  IF r1.boss_level
             THEN {[rs |-> g, ws |-> ws, res |-> "won"] :
                     g \in WithThemeGate([r1 EXCEPT !.pending_powerups = <<>>])}
             ELSE {[rs |-> o.rs, ws |-> o.ws, res |-> "won"] : o \in Advance(r1, TRUE, ws)}
    ELSE LET base_score == score_for_win(difficulty_level(r), Len(r.guesses))
             r1 == [r EXCEPT !.last_score_delta = base_score,
                             !.score = r.score + base_score]
             rolled == {[o.rs EXCEPT !.pending_powerups = o.picks] :
                          o \in roll_powerups(r1, default_roll_count(r1), TRUE, domain)}
         IN  IF r1.score > MaxScore THEN {}
             ELSE {[rs |-> g, ws |-> ws, res |-> "won"] :
                     g \in IF r1.boss_level
                           THEN UNION {WithThemeGate(r2) : r2 \in rolled}
                           ELSE rolled}

\* game.py 435: the normalized guess is a word of the level's history.
already_guessed_first(r, normalized_guess) ==
    r.guesses # <<>> /\ r.guesses[1].word = normalized_guess
already_guessed(r, normalized_guess) ==
    \E i \in 1..Len(r.guesses) : r.guesses[i].word = normalized_guess

\* game.py 440-464: the guess is ranked against the secret and appended.
append_guess_revealed(r, normalized_guess) ==
    LET ranked == rank_guess(normalized_guess, r.secret)
        entry == [word |-> normalized_guess, rank |-> ranked[1],
                  similarity |-> ranked[2], show_similarity |-> TRUE]
    IN  [r EXCEPT !.guesses = Append(@, entry),
                  !.best_rank = IF @ = 0 \/ ranked[1] < @ THEN ranked[1] ELSE @]
append_guess(r, normalized_guess) ==
    LET ranked == rank_guess(normalized_guess, r.secret)
        show_similarity == r.similarity_reveal_remaining > 0
        entry == [word |-> normalized_guess, rank |-> ranked[1],
                  similarity |-> ranked[2], show_similarity |-> show_similarity]
    IN  [r EXCEPT !.similarity_reveal_remaining = IF show_similarity THEN @ - 1 ELSE @,
                  !.guesses = Append(@, entry),
                  !.best_rank = IF @ = 0 \/ ranked[1] < @ THEN ranked[1] ELSE @]

gm_submit_guess(r0, guess, ws, nws, domain) ==
    LET r == [r0 EXCEPT !.last_score_delta = 0]
        normalized_guess == normalize_word(Upper(Strip(guess)), ws)
    IN  IF r.pending_powerups # <<>> THEN {[rs |-> r, ws |-> ws, res |-> "gate"]}
        ELSE IF won(r) \/ failed(r) THEN {[rs |-> r, ws |-> ws, res |-> "gate"]}
        ELSE IF ~IsAlpha(normalized_guess) THEN {[rs |-> r, ws |-> ws, res |-> "invalid"]}
        ELSE IF normalized_guess \notin nws THEN {[rs |-> r, ws |-> ws, res |-> "invalid"]}
        ELSE IF already_guessed(r, normalized_guess)
        THEN {[rs |-> r, ws |-> ws, res |-> "duplicate"]}
        ELSE LET r1 == append_guess(r, normalized_guess)
             IN  IF won(r1) THEN WinOutcomes(r1, ws, domain)
                 ELSE {[rs |-> r1, ws |-> ws, res |-> "accepted"]}

(***************************************************************************)
(* POST /api/run/{run_id}/guess (main.py 1132-1180).                       *)
(***************************************************************************)
\* main.py 1138: the handler answers with the run as it is.
guess_closed(r) == r.pending_powerups # <<>> \/ won(r) \/ failed(r)

\* main.py 1163-1175: a momentum bonus is spent by a guess that was appended.
momentum_spent(r, prev_guess_count) ==
    IF r.momentum_bonus_active /\ Len(r.guesses) > prev_guess_count
    THEN [r EXCEPT !.momentum_bonus_active = FALSE, !.momentum_bonus_value = 0]
    ELSE r

\* What a guess request is answered with: "400" is the HTTPException of
\* main.py 1142-1155, the others are answers that carry the run's state.
GuessAnswers == {"gate", "400", "invalid", "duplicate", "accepted", "won"}

HandleGuess(word, oracle_up, res) ==
    /\ runs # {}
    /\ LET guess == Upper(Strip(word))
           known == is_valid_guess(guess, word_set, normalized_word_set)
           admitted == oracle_up /\ guess \in ORACLE_WORDS
           ws == IF known THEN word_set ELSE add_word(guess, word_set)
           nws == IF ws = word_set THEN normalized_word_set
                  ELSE rebuild_normalized_word_set(ws)
       IN  IF guess_closed(rs)
           THEN /\ res = "gate"
                /\ last' = Answer("guess", "gate", rs, word_set)
                /\ UNCHANGED <<rs, word_set, normalized_word_set>>
           ELSE IF guess = NoWord \/ ~IsAlpha(guess) \/ (~known /\ ~admitted)
           THEN /\ res = "400"
                /\ last' = Answer("guess", "400", rs, word_set)
                /\ UNCHANGED <<rs, word_set, normalized_word_set>>
           ELSE \E o \in gm_submit_guess(rs, guess, ws, nws, scope.rewards) :
                  /\ res = o.res
                  /\ rs' = momentum_spent(o.rs, Len(rs.guesses))
                  /\ Catalog(o.ws)
                  /\ last' = Observed("guess", o.res,
                                       IF normalize_word(guess, ws) = guess
                                       THEN "plain" ELSE "variant",
                                       rs', o.ws)
    /\ UNCHANGED <<runs, scope>>

SubmitGuess(word, oracle_up) ==
    /\ \E res \in GuessAnswers : HandleGuess(word, oracle_up, res)
    /\ UNCHANGED fn

(***************************************************************************)
(* POST /api/run/{run_id}/skip (main.py 1183-1186, game.py 521-531).       *)
(***************************************************************************)
\* game.py 526: a skip the manager answers with the run as it is.
skip_refused_open(r) == failed(r) \/ ~skip_available(r)
skip_refused(r) ==
    r.pending_powerups # <<>> \/ won(r) \/ failed(r) \/ ~skip_available(r)

SkipLevel ==
    /\ runs # {}
    /\ IF is_random_mode(rs)
       THEN \E o \in reset_random_round(rs, word_set) :
              /\ rs' = o.rs
              /\ Catalog(o.ws)
              /\ last' = Answer("skip", "reset", o.rs, o.ws)
       ELSE IF skip_refused(rs)
       THEN /\ last' = Answer("skip", "noop", rs, word_set)
            /\ UNCHANGED <<rs, word_set, normalized_word_set>>
       ELSE \E o \in Advance([rs EXCEPT !.last_skip_level = rs.level], FALSE, word_set) :
              /\ rs' = o.rs
              /\ Catalog(o.ws)
              /\ last' = Answer("skip", "skipped", o.rs, o.ws)
    /\ UNCHANGED <<runs, scope, fn>>

(***************************************************************************)
(* POST /api/run/{run_id}/fail (main.py 1189-1214).                        *)
(***************************************************************************)
FailRun ==
    /\ runs # {}
    /\ LET r1 == IF rs.skip_insurance_active
                 THEN [rs EXCEPT !.last_skip_level = NEVER_SKIPPED,
                                 !.skip_insurance_active = FALSE]
                 ELSE rs
       IN  IF r1.safety_net_levels > 0
           THEN \E o \in Advance([r1 EXCEPT !.safety_net_levels = 0], FALSE, word_set) :
                  /\ rs' = o.rs
                  /\ Catalog(o.ws)
                  /\ last' = Answer("fail", "saved", o.rs, o.ws)
           ELSE /\ rs' = [r1 EXCEPT !.failed_flag = TRUE]
                /\ last' = Answer("fail", "failed", rs', word_set)
                /\ UNCHANGED <<word_set, normalized_word_set>>
    /\ UNCHANGED <<runs, scope, fn>>

(***************************************************************************)
(* POST /api/run/{run_id}/choose_powerup (main.py 1217-1224,               *)
(* game.py 533-572).                                                       *)
(***************************************************************************)
\* The index of the first reward of the list with this definition id, or 0.
FirstIndex(list, id) ==
    LET hits == {i \in 1..Len(list) : list[i] = id}
    IN  IF hits = {} THEN 0 ELSE CHOOSE i \in hits : \A j \in hits : i <= j

RemoveAt(list, idx) == SubSeq(list, 1, idx - 1) \o SubSeq(list, idx + 1, Len(list))

\* game.py 555-559, 561-565, 568-572: the offers are cleared and, unless the theme
\* gate is pending, the level advances as completed.
CloseReward(r, ws) ==
    LET r1 == [r EXCEPT !.pending_powerups = <<>>]
    IN  IF r1.pending_theme_choice THEN {[rs |-> r1, ws |-> ws]}
        ELSE Advance(r1, TRUE, ws)

\* game.py 567: the inventory after the chosen reward is kept.
KeepReward_twice(inventory, chosen) == Append(Append(inventory, chosen), chosen)
KeepReward(inventory, chosen) == Append(inventory, chosen)

\* game.py 560: the inventory holds as many rewards as it may.
inventory_full_over(r) == Len(r.inventory) > INVENTORY_CAPACITY
inventory_full(r) == Len(r.inventory) >= INVENTORY_CAPACITY

choose_powerup(r, powerup_id, ws) ==
    LET idx == FirstIndex(r.pending_powerups, powerup_id)
        chosen == r.pending_powerups[idx]
    IN  IF is_random_mode(r)
        THEN {[rs |-> [r EXCEPT !.pending_powerups = <<>>], ws |-> ws, res |-> "disabled"]}
        ELSE IF r.pending_powerups = <<>> THEN {[rs |-> r, ws |-> ws, res |-> "none"]}
        ELSE IF idx = 0 THEN {[rs |-> r, ws |-> ws, res |-> "unavailable"]}
        ELSE IF chosen \in Range(r.inventory)
        THEN {[rs |-> o.rs, ws |-> o.ws, res |-> "duplicate"] : o \in CloseReward(r, ws)}
        ELSE IF inventory_full(r)
        THEN {[rs |-> o.rs, ws |-> o.ws, res |-> "full"] : o \in CloseReward(r, ws)}
        ELSE {[rs |-> o.rs, ws |-> o.ws, res |-> "added"] :
                o \in CloseReward([r EXCEPT !.inventory = KeepReward(@, chosen)], ws)}

ChoosePowerup(powerup_id) ==
    /\ runs # {}
    /\ \E o \in choose_powerup(rs, powerup_id, word_set) :
         /\ rs' = o.rs
         /\ Catalog(o.ws)
         /\ last' = Answer("choose_powerup", o.res, o.rs, o.ws)
    /\ UNCHANGED <<runs, scope, fn>>

(***************************************************************************)
(* POST /api/run/{run_id}/choose_theme (main.py 1227-1242,                 *)
(* game.py 691-701).                                                       *)
(***************************************************************************)
apply_theme_choice_kept(r, theme_id, ws) ==
    Advance([r EXCEPT !.pending_theme_choice = FALSE, !.theme_options = {}], TRUE, ws)
apply_theme_choice(r, theme_id, ws) ==
    IF is_random_mode(r)
    THEN {[rs |-> [r EXCEPT !.pending_theme_choice = FALSE, !.theme_options = {}],
           ws |-> ws]}
    ELSE Advance([r EXCEPT !.theme_id = theme_id, !.pending_theme_choice = FALSE,
                           !.theme_options = {}], TRUE, ws)

ChooseTheme(theme_id) ==
    /\ runs # {}
    /\ IF ~rs.pending_theme_choice
       THEN /\ last' = Answer("choose_theme", "no_gate", rs, word_set)
            /\ UNCHANGED <<rs, word_set, normalized_word_set>>
       ELSE IF \/ theme_id \notin Range(THEMES)
               \/ (rs.theme_options # {} /\ theme_id \notin rs.theme_options)
       THEN /\ last' = Answer("choose_theme", "400", rs, word_set)
            /\ UNCHANGED <<rs, word_set, normalized_word_set>>
       ELSE \E o \in apply_theme_choice(rs, theme_id, word_set) :
              /\ rs' = o.rs
              /\ Catalog(o.ws)
              /\ last' = Answer("choose_theme", "chosen", o.rs, o.ws)
    /\ UNCHANGED <<runs, scope, fn>>

(***************************************************************************)
(* POST /api/run/{run_id}/use_powerup (main.py 1245-1385,                  *)
(* game.py 574-593).                                                       *)
(***************************************************************************)
\* game.py 580: the requests use_powerup refuses.  A request that names the reward
\* by its instance id never carries the string "reroll_rewards".
UseRefused(r, powerup_id, by_instance) ==
    \/ (r.pending_powerups # <<>> /\ (by_instance \/ powerup_id # "reroll_rewards"))
    \/ failed(r)
    \/ r.inventory = <<>>

\* main.py 1282-1288.
undo_guess(r) ==
    IF r.guesses # <<>>
    THEN LET kept == SubSeq(r.guesses, 1, Len(r.guesses) - 1)
             ranks == {kept[i].rank : i \in 1..Len(kept)}
         IN  [r EXCEPT !.guesses = kept,
                       !.best_rank = IF ranks = {} THEN 0
                                     ELSE CHOOSE m \in ranks : \A k \in ranks : m <= k]
    ELSE r

\* main.py 1292-1303.
anchor_guess(r, choice) ==
    LET c == Upper(Strip(choice))
        hits == {i \in 1..Len(r.guesses) : r.guesses[i].word = c}
    IN  IF c = NoWord \/ hits = {} THEN r
        ELSE LET m == r.guesses[CHOOSE i \in hits : \A j \in hits : i <= j]
             IN  [r EXCEPT !.anchor_word = m.word, !.anchor_rank = m.rank]

\* main.py 1364-1370: the outcomes of rerolling the pending offers.
reroll_rewards(r, domain) ==
    IF r.pending_powerups # <<>>
    THEN {[o.rs EXCEPT !.pending_powerups = o.picks] :
            o \in roll_powerups(r, Len(r.pending_powerups), FALSE, domain)}
    ELSE {r}

\* main.py 1258-1373: the outcomes [rs, ws] of the used reward's effect.
PowerupEffect(r, id, choice, ws, domain) ==
    CASE id = "undo_guess" -> {[rs |-> undo_guess(r), ws |-> ws]}
      [] id = "reroll_target" -> reroll_target(r, ws)
      [] id = "anchor_guess" -> {[rs |-> anchor_guess(r, choice), ws |-> ws]}
      [] id = "similarity_reveal" ->
           {[rs |-> [r EXCEPT !.similarity_reveal_remaining = Max(@, POWERUP_VALUE(id))],
             ws |-> ws]}
      [] id = "momentum_bonus" ->
           {[rs |-> [r EXCEPT !.momentum_bonus_active = TRUE,
                              !.momentum_bonus_value = POWERUP_VALUE(id)],
             ws |-> ws]}
      [] id = "skip_cooldown_reducer" ->
           {[rs |-> [r EXCEPT !.skip_cooldown_reduction_value = Max(@, 1),
                              !.skip_cooldown_reduction_levels = Max(@, 5)],
             ws |-> ws]}
      [] id = "skip_refresh" -> {[rs |-> [r EXCEPT !.last_skip_level = NEVER_SKIPPED], ws |-> ws]}
      [] id = "skip_insurance" -> {[rs |-> [r EXCEPT !.skip_insurance_active = TRUE], ws |-> ws]}
      [] id = "expanded_choice" ->
           {[rs |-> [r EXCEPT !.expanded_choice_levels = Max(@, 1)], ws |-> ws]}
      [] id = "reroll_rewards" -> {[rs |-> g, ws |-> ws] : g \in reroll_rewards(r, domain)}
      [] id = "safety_net" ->
           {[rs |-> [r EXCEPT !.safety_net_levels = Max(@, 3)], ws |-> ws]}
      [] OTHER -> {[rs |-> r, ws |-> ws]}

UsePowerup(powerup_id, by_instance, choice) ==
    /\ runs # {}
    /\ LET idx == FirstIndex(rs.inventory, powerup_id)
       IN  IF is_random_mode(rs)
           THEN /\ rs' = [rs EXCEPT !.pending_powerups = <<>>, !.inventory = <<>>]
                /\ last' = Answer("use_powerup", "none", rs', word_set)
                /\ UNCHANGED <<word_set, normalized_word_set>>
           ELSE IF UseRefused(rs, powerup_id, by_instance) \/ idx = 0
           THEN /\ last' = Answer("use_powerup", "none", rs, word_set)
                /\ UNCHANGED <<rs, word_set, normalized_word_set>>
           ELSE \E o \in PowerupEffect([rs EXCEPT !.inventory = RemoveAt(@, idx)],
                                       powerup_id, choice, word_set, scope.rewards) :
                  /\ rs' = o.rs
                  /\ Catalog(o.ws)
                  /\ last' = Answer("use_powerup", powerup_id, o.rs, o.ws)
    /\ UNCHANGED <<runs, scope, fn>>

(***************************************************************************)
(* The run state machine.                                                  *)
(***************************************************************************)
RewardInputs == scope.rewards \cup {"bogus"}
\* The guess a use_powerup request names; only anchor_guess reads it.
AnchorChoices(id) == IF id = "anchor_guess" THEN {NoWord, CAT} ELSE {NoWord}

Next ==
    \/ \E theme \in StartThemes : StartRun(theme)
    \/ \E word \in scope.words, oracle_up \in BOOLEAN : SubmitGuess(word, oracle_up)
    \/ SkipLevel
    \/ FailRun
    \/ \E id \in RewardInputs : ChoosePowerup(id)
    \/ \E theme \in ChosenThemes : ChooseTheme(theme)
    \/ \E id \in RewardInputs, by_instance \in BOOLEAN :
         \E choice \in AnchorChoices(id) : UsePowerup(id, by_instance, choice)

Spec == Init /\ [][Next]_vars
SpecRewards == InitRewards /\ [][Next]_vars

\* GameManager._score_for_win called with the level and the guesses of fn.
ScoreForWin ==
    /\ fn.f = "none"
    /\ fn' = [fn EXCEPT !.f = "score_for_win", !.out = score_for_win(fn.level, fn.guesses)]
    /\ UNCHANGED <<runs, rs, word_set, normalized_word_set, scope, last>>

NextScore == ScoreForWin
SpecScore == InitScore /\ [][NextScore]_vars
SpecWords == InitWords /\ [][Next]_vars

(***************************************************************************)
(* normalize_word applied to a word and a known word set, and then to its  *)
(* own result.                                                             *)
(***************************************************************************)
NormalizeAlphabet == {"A", "E", "S", "X"}
TypedWords == UNION {[1..n -> NormalizeAlphabet] : n \in 0..MaxWordLen}
ListedWords ==
    {<<"M","I","C","E">>, <<"L","E","A","V","E","S">>, <<"N","E","W","S">>,
     <<"C","I","T","I","E","S">>, <<"H","A","L","V","E","S">>, <<"B","U","S">>,
     <<"G","L","A","S","S">>, <<"H","O","R","S","E","S">>, <<"C","4","T","S">>,
     CATS, <<" ","a","x","e","s"," ">>}
NormalizeInputs == TypedWords \cup ListedWords
KnownSets == SUBSET {AX, AXE, AXES}

InitNormalize ==
    /\ Setup(ControlScope)
    /\ fn \in {[f |-> "none", word |-> w, known |-> known, out |-> NoWord, again |-> NoWord] :
                 w \in NormalizeInputs, known \in KnownSets}

NormalizeWord ==
    /\ fn.f = "none"
    /\ fn' = [fn EXCEPT !.f = "normalize_word", !.out = normalize_word(fn.word, fn.known)]
    /\ UNCHANGED <<runs, rs, word_set, normalized_word_set, scope, last>>

NormalizeAgain ==
    /\ fn.f = "normalize_word"
    /\ fn' = [fn EXCEPT !.f = "normalize_again", !.again = normalize_word(fn.out, fn.known)]
    /\ UNCHANGED <<runs, rs, word_set, normalized_word_set, scope, last>>

NextNormalize == NormalizeWord \/ NormalizeAgain
SpecNormalize == InitNormalize /\ [][NextNormalize]_vars

(***************************************************************************)
(* The catalog alone: add_word and is_valid_guess called in any order      *)
(* (game.py 672-683).                                                      *)
(***************************************************************************)
CatalogInputs == GuessInputs \cup {AX}

AddWord(word) ==
    /\ Catalog(add_word(word, word_set))
    /\ fn' = [f |-> "add_word", word |-> word, out |-> FALSE]
    /\ UNCHANGED <<runs, rs, scope, last>>

IsValidGuess(word) ==
    /\ fn' = [f |-> "is_valid_guess", word |-> word,
              out |-> is_valid_guess(word, word_set, normalized_word_set)]
    /\ UNCHANGED <<runs, rs, word_set, normalized_word_set, scope, last>>

InitCatalog == Setup(ControlScope) /\ fn = [f |-> "none", word |-> NoWord, out |-> FALSE]
NextCatalog ==
    \/ \E word \in CatalogInputs : AddWord(word)
    \/ \E word \in CatalogInputs : IsValidGuess(word)
SpecCatalog == InitCatalog /\ [][NextCatalog]_vars

(***************************************************************************)
(* _select_word_for_level applied to a level in a manager built from a     *)
(* catalog, with or without an easy-word list (game.py 314-328, 354-367).  *)
(***************************************************************************)
CatalogPool == {CAT, CATS, AXE, AXES, JAZZ}
Catalogs ==
    {c \in UNION {[1..n -> CatalogPool] : n \in 1..MaxCatalog} :
        \A i, j \in 1..Len(c) : c[i] = c[j] => i = j}

InitSelect ==
    /\ Setup(ControlScope)
    /\ fn \in {[f |-> "none", catalog |-> c, easy |-> e, level |-> l, out |-> NoWord] :
                 c \in Catalogs, e \in BOOLEAN, l \in 1..MaxFnLevel}

SelectWordForLevel ==
    /\ fn.f = "none"
    /\ \E w \in SelectWord(fn.level, build_word_entries(dedupe_preserve(fn.catalog)),
                           IF fn.easy THEN dedupe_preserve(load_easy_words(fn.catalog))
                           ELSE <<>>) :
         fn' = [fn EXCEPT !.f = "select_word_for_level", !.out = w]
    /\ UNCHANGED <<runs, rs, word_set, normalized_word_set, scope, last>>

NextSelect == SelectWordForLevel
SpecSelect == InitSelect /\ [][NextSelect]_vars

(***************************************************************************)
(* difficulty_multiplier applied to two levels (game.py 127-132).          *)
(***************************************************************************)
InitLevels ==
    /\ Setup(ControlScope)
    /\ fn \in {[f |-> "none", level |-> l, later |-> m, out |-> 0, out_later |-> 0] :
                 l \in 1..MaxFnLevel, m \in 1..MaxFnLevel}

DifficultyMultiplier ==
    /\ fn.f = "none"
    /\ fn' = [fn EXCEPT !.f = "difficulty_multiplier",
                        !.out = difficulty_multiplier(fn.level),
                        !.out_later = difficulty_multiplier(fn.later)]
    /\ UNCHANGED <<runs, rs, word_set, normalized_word_set, scope, last>>

NextLevels == DifficultyMultiplier
SpecLevels == InitLevels /\ [][NextLevels]_vars

(***************************************************************************)
(* The ranker alone: rank_guess called again and again, its per-secret     *)
(* cache kept between the calls (semantic.py 32-42, 64-88).                *)
(***************************************************************************)
RankGuesses == {CAT, CATS, AX, AXE, AXES, JAZZ, <<" ","c","a","t">>}
RankSecrets == {CAT, AXE, AXES, <<"c","a","t">>}

InitRank ==
    /\ Setup(ControlScope)
    /\ fn = [f |-> "none", guess |-> NoWord, secret |-> NoWord, out |-> <<0, 0>>,
             cached |-> FALSE, cache |-> NoSecretCache]

RankGuess(guess, secret) ==
    /\ LET res == ranker_rank_guess(guess, secret, fn.cache)
       IN  fn' = [f |-> "rank_guess", guess |-> guess, secret |-> secret, out |-> res.out,
                  cached |-> CacheKey(secret) \in DOMAIN fn.cache, cache |-> res.cache]
    /\ UNCHANGED <<runs, rs, word_set, normalized_word_set, scope, last>>

NextRank == \E guess \in RankGuesses, secret \in RankSecrets : RankGuess(guess, secret)
SpecRank == InitRank /\ [][NextRank]_vars

(***************************************************************************)
(* Two worker threads, each handling a guess request for the same run      *)
(* (main.py 1132-1180, game.py 419-490).  The handlers are plain functions *)
(* that the server runs on a thread pool, and neither they nor the manager *)
(* take a lock: a thread may be suspended between any two statements.  A   *)
(* thread's steps here are the gate of the handler, the checks of the      *)
(* manager, the ranking and the append, what follows a win, and the        *)
(* handler's answer.                                                       *)
(***************************************************************************)
Threads == {1, 2}
RaceWords == {CAT, AXES}
RaceThemes == {"nature", "random"}

\* The runs start_run may return for a theme (game.py 406-412).
StartedRuns(theme_id) ==
    {apply_level_settings([NewRunState(theme_id) EXCEPT !.secret = o.secret]) :
        o \in new_secret(NewRunState(theme_id), difficulty_level(NewRunState(theme_id)),
                         Range(words))}

InitRace ==
    /\ runs = {1}
    /\ rs \in UNION {StartedRuns(theme_id) : theme_id \in RaceThemes}
    /\ word_set = Range(words)
    /\ normalized_word_set = rebuild_normalized_word_set(Range(words))
    /\ scope = ControlScope
    /\ last = [op |-> "start", res |-> "started", form |-> ""]
    /\ fn \in {[f |-> "guess", pc |-> [t \in Threads |-> "gate"], word |-> w,
                normalized_guess |-> [t \in Threads |-> NoWord],
                prev_guess_count |-> [t \in Threads |-> 0], start |-> rs] :
                 w \in [Threads -> RaceWords]}

RaceUnchanged == UNCHANGED <<runs, word_set, normalized_word_set, scope, last>>

\* main.py 1138-1161.
RaceGate(t) ==
    /\ fn.pc[t] = "gate"
    /\ fn' = IF guess_closed(rs)
                \/ ~is_valid_guess(Upper(Strip(fn.word[t])), word_set, normalized_word_set)
             THEN [fn EXCEPT !.pc[t] = "done"]
             ELSE [fn EXCEPT !.pc[t] = "check", !.prev_guess_count[t] = Len(rs.guesses)]
    /\ UNCHANGED rs
    /\ RaceUnchanged

\* game.py 420-438.
RaceCheck(t) ==
    /\ fn.pc[t] = "check"
    /\ rs' = [rs EXCEPT !.last_score_delta = 0]
    /\ LET normalized_guess == normalize_word(Upper(Strip(fn.word[t])), word_set)
       IN  fn' = IF \/ rs.pending_powerups # <<>> \/ won(rs) \/ failed(rs)
                    \/ ~IsAlpha(normalized_guess)
                    \/ normalized_guess \notin normalized_word_set
                    \/ already_guessed(rs, normalized_guess)
                 THEN [fn EXCEPT !.pc[t] = "answer"]
                 ELSE [fn EXCEPT !.pc[t] = "append",
                                 !.normalized_guess[t] = normalized_guess]
    /\ RaceUnchanged

\* game.py 440-464.
RaceAppend(t) ==
    /\ fn.pc[t] = "append"
    /\ rs' = append_guess(rs, fn.normalized_guess[t])
    /\ fn' = [fn EXCEPT !.pc[t] = "settle"]
    /\ RaceUnchanged

\* game.py 467-490.
RaceSettle(t) ==
    /\ fn.pc[t] = "settle"
    /\ IF won(rs)
       THEN \E o \in WinOutcomes(rs, word_set, scope.rewards) : rs' = o.rs
       ELSE UNCHANGED rs
    /\ fn' = [fn EXCEPT !.pc[t] = "answer"]
    /\ RaceUnchanged

\* main.py 1163-1180.
RaceAnswer(t) ==
    /\ fn.pc[t] = "answer"
    /\ rs' = momentum_spent(rs, fn.prev_guess_count[t])
    /\ fn' = [fn EXCEPT !.pc[t] = "done"]
    /\ RaceUnchanged

NextRace ==
    \E t \in Threads :
        \/ RaceGate(t)
        \/ RaceCheck(t)
        \/ RaceAppend(t)
        \/ RaceSettle(t)
        \/ RaceAnswer(t)
SpecRace == InitRace /\ [][NextRace]_vars

(***************************************************************************)
(* Two worker threads, each inside add_word (game.py 676-683) for a word   *)
(* the dictionary oracle admitted (main.py 1147-1155), and a reader that   *)
(* calls is_valid_guess at any moment.  add_word takes no lock: it adds    *)
(* to word_set in place, then _rebuild_normalized_word_set (game.py        *)
(* 346-347) builds a new set by iterating word_set and, in a separate      *)
(* step, stores it in normalized_word_set.  Python raises RuntimeError in  *)
(* a thread whose iteration of word_set is interrupted by an add.          *)
(***************************************************************************)
AddedWords == {JAZZ, AXE, CAT}
NoRead == [word |-> NoWord, out |-> FALSE, table |-> {}]

InitAdd ==
    /\ Setup(ControlScope)
    /\ \E first \in AddedWords, second \in AddedWords :
          /\ first # second
          /\ fn = [f |-> "add_word",
                   pc |-> [t \in Threads |-> "call"],
                   word |-> [t \in Threads |-> IF t = 1 THEN first ELSE second],
                   table |-> [t \in Threads |-> {}],
                   read |-> NoRead]

AddUnchanged == UNCHANGED <<runs, rs, scope, last>>

\* game.py 677-682: the early returns and word_set.add.
AddInsert(t) ==
    /\ fn.pc[t] = "call"
    /\ LET cleaned == Upper(Strip(fn.word[t]))
       IN  IF ~IsAlpha(cleaned) \/ cleaned \in word_set
           THEN /\ fn' = [fn EXCEPT !.pc[t] = "done"]
                /\ UNCHANGED word_set
           ELSE /\ word_set' = word_set \cup {cleaned}
                /\ fn' = [fn EXCEPT !.pc[t] = "rebuild"]
    /\ UNCHANGED normalized_word_set
    /\ AddUnchanged

\* game.py 347, the right-hand side: the set comprehension over word_set.
AddRebuild(t) ==
    /\ fn.pc[t] = "rebuild"
    /\ fn' = [fn EXCEPT !.pc[t] = "store",
                        !.table[t] = rebuild_normalized_word_set(word_set)]
    /\ UNCHANGED <<word_set, normalized_word_set>>
    /\ AddUnchanged

\* game.py 347 and 682: thread u adds to word_set while thread t iterates
\* it; the iteration raises "Set changed size during iteration" and t
\* leaves add_word without storing a table.
AddInterrupted(t, u) ==
    /\ t # u
    /\ fn.pc[t] = "rebuild"
    /\ fn.pc[u] = "call"
    /\ LET cleaned == Upper(Strip(fn.word[u]))
       IN  /\ IsAlpha(cleaned)
           /\ cleaned \notin word_set
           /\ word_set' = word_set \cup {cleaned}
    /\ fn' = [fn EXCEPT !.pc[t] = "raised", !.pc[u] = "rebuild"]
    /\ UNCHANGED normalized_word_set
    /\ AddUnchanged

\* game.py 347, the assignment to self.normalized_word_set.
AddStore(t) ==
    /\ fn.pc[t] = "store"
    /\ normalized_word_set' = fn.table[t]
    /\ fn' = [fn EXCEPT !.pc[t] = "done"]
    /\ UNCHANGED word_set
    /\ AddUnchanged

\* game.py 672-674, called by a request of another thread (main.py 1147).
AddRead(word) ==
    /\ fn' = [fn EXCEPT !.read =
                 [word |-> word,
                  out |-> is_valid_guess(word, word_set, normalized_word_set),
                  table |-> normalized_word_set]]
    /\ fn'.read # fn.read
    /\ UNCHANGED <<word_set, normalized_word_set>>
    /\ AddUnchanged

NextAdd ==
    \/ \E t \in Threads : AddInsert(t)
    \/ \E t \in Threads : AddRebuild(t)
    \/ \E t \in Threads, u \in Threads : AddInterrupted(t, u)
    \/ \E t \in Threads : AddStore(t)
    \/ \E word \in AddedWords : AddRead(word)
SpecAdd == InitAdd /\ [][NextAdd]_vars

(***************************************************************************)
(* The guess request with its answer recorded: the handler of main.py      *)
(* 1132-1180 answers either with an HTTPException or with the run's state, *)
(* and fn keeps which, for the word and the oracle's availability it was   *)
(* called with.                                                            *)
(***************************************************************************)
InitGuess ==
    /\ Setup(WordScope)
    /\ fn = [f |-> "none", word |-> NoWord, oracle_up |-> FALSE, res |-> ""]

GuessCall(word, oracle_up) ==
    \E res \in GuessAnswers :
        /\ HandleGuess(word, oracle_up, res)
        /\ fn' = [f |-> "guess", word |-> word, oracle_up |-> oracle_up, res |-> res]

NextGuess ==
    \/ \E theme \in StartThemes : StartRun(theme)
    \/ \E word \in scope.words, oracle_up \in BOOLEAN : GuessCall(word, oracle_up)
    \/ FailRun
    \/ \E id \in RewardInputs : ChoosePowerup(id)
SpecGuess == InitGuess /\ [][NextGuess]_vars

(***************************************************************************)
(* A level played to the attempt limit.  The catalog holds, besides the    *)
(* loaded words, one-letter words learned through add_word, so that a      *)
(* level can take DEFAULT_MAX_GUESSES guesses that miss the secret.  The   *)
(* run has been started and some of the opening guesses have been made;    *)
(* the requests are guess and fail.                                        *)
(***************************************************************************)
AttemptOpening == <<<<"A">>, <<"E">>, <<"J">>, <<"T">>>>
AttemptWords == {<<"T">>, <<"X">>, <<"Z">>, CAT}
AttemptThemes == {"nature", "random"}
AttemptScope == [words |-> AttemptWords, rewards |-> ControlRewards, levels |-> 1]

\* The run r after the guesses of a sequence, none of them its secret, were
\* appended (game.py 440-464).
RECURSIVE Played(_, _)
Played(r, guesses) ==
    IF guesses = <<>> THEN r
    ELSE append_guess(Played(r, SubSeq(guesses, 1, Len(guesses) - 1)),
                      guesses[Len(guesses)])

InitAttempts ==
    /\ runs = {1}
    /\ rs \in {Played(r, SubSeq(AttemptOpening, 1, k)) :
                 r \in UNION {StartedRuns(theme) : theme \in AttemptThemes},
                 k \in 0..Len(AttemptOpening)}
    /\ word_set = Range(words) \cup Range(AttemptOpening) \cup AttemptWords
    /\ normalized_word_set =
         rebuild_normalized_word_set(Range(words) \cup Range(AttemptOpening) \cup AttemptWords)
    /\ scope = AttemptScope
    /\ last = [op |-> "init", res |-> "", form |-> ""]
    /\ fn = NoCall

NextAttempts ==
    \/ \E word \in scope.words, oracle_up \in BOOLEAN : SubmitGuess(word, oracle_up)
    \/ FailRun
SpecAttempts == InitAttempts /\ [][NextAttempts]_vars

(***************************************************************************)
(* Runs whose only reward is the safety net (main.py 1195-1214 and         *)
(* 1371-1373, game.py 617-618), explored over MaxNetLevel levels so that a *)
(* net armed with 3 levels can lapse unused.                               *)
(***************************************************************************)
NetScope == [words |-> {CAT, AXES}, rewards |-> {"safety_net"}, levels |-> MaxNetLevel]
InitNet == Setup(NetScope) /\ fn = NoCall
SpecNet == InitNet /\ [][Next]_vars

(***************************************************************************)
(* Runs that keep every reward they win: the requests are start, guess,    *)
(* choose_powerup and choose_theme, over MaxHoardLevel levels, so that an  *)
(* inventory at capacity meets offers on a level that is not a boss level. *)
(***************************************************************************)
HoardScope == [words |-> {CAT, AXES}, rewards |-> EconomyRewards, levels |-> MaxHoardLevel]
HoardThemes == {"nature"}
HoardChoices == {"food", "nature"}
InitHoard == Setup(HoardScope) /\ fn = NoCall
NextHoard ==
    \/ \E theme \in HoardThemes : StartRun(theme)
    \/ \E word \in scope.words, oracle_up \in BOOLEAN : SubmitGuess(word, oracle_up)
    \/ \E id \in RewardInputs : ChoosePowerup(id)
    \/ \E theme \in HoardChoices : ChooseTheme(theme)
SpecHoard == InitHoard /\ [][NextHoard]_vars

(***************************************************************************)
(* Runs whose rewards set per-level fields: the anchor (main.py 1292-1303),*)
(* the momentum bonus (1347-1350), the forfeit flag of a rerolled target   *)
(* (game.py 627-633) and the safety net that forgives a failure, explored  *)
(* over MaxLevel levels.                                                   *)
(***************************************************************************)
FieldRewards == {"anchor_guess", "momentum_bonus", "reroll_target", "safety_net"}
FieldScope == [words |-> PlainGuesses, rewards |-> FieldRewards, levels |-> MaxLevel]
InitFields == Setup(FieldScope) /\ fn = NoCall
SpecFields == InitFields /\ [][Next]_vars

(***************************************************************************)
(* Runs whose rewards are the counters that last several levels: the skip  *)
(* cooldown reducer (main.py 1351-1354) and the safety net (1371-1373),    *)
(* explored over MaxLapseLevel levels so that a reducer armed for 5 levels *)
(* on the second level can lapse.                                          *)
(***************************************************************************)
LapseRewards == {"skip_cooldown_reducer", "safety_net"}
LapseScope == [words |-> PlainGuesses, rewards |-> LapseRewards, levels |-> MaxLapseLevel]
InitLapse == Setup(LapseScope) /\ fn = NoCall
SpecLapse == InitLapse /\ [][Next]_vars

(***************************************************************************)
(* Runs whose only reward is the similarity reveal (main.py 1304-1308),    *)
(* with two catalog words to guess on each level, so that more guesses are *)
(* accepted after a use of the reward than it reveals.                     *)
(***************************************************************************)
RevealWords == {CAT, AXES, <<"C","4","T">>}
RevealScope == [words |-> RevealWords, rewards |-> {"similarity_reveal"}, levels |-> MaxLevel]
InitReveal == Setup(RevealScope) /\ fn = NoCall
SpecReveal == InitReveal /\ [][Next]_vars

(***************************************************************************)
(* The runs of Spec with the awards of a level counted: fn holds the level *)
(* of the last guess that raised the score and, in out, how many guesses   *)
(* raised it on that level (game.py 480-483).                              *)
(***************************************************************************)
InitAwards == Setup(ControlScope) /\ fn = NoCall

GuessTally(word, oracle_up) ==
    /\ \E res \in GuessAnswers : HandleGuess(word, oracle_up, res)
    /\ fn' = IF rs'.score > rs.score
             THEN [f |-> "award", level |-> rs.level, guesses |-> 0,
                   out |-> IF fn.level = rs.level THEN fn.out + 1 ELSE 1]
             ELSE fn

NextAwards ==
    \/ \E theme \in StartThemes : StartRun(theme)
    \/ \E word \in scope.words, oracle_up \in BOOLEAN : GuessTally(word, oracle_up)
    \/ SkipLevel
    \/ FailRun
    \/ \E id \in RewardInputs : ChoosePowerup(id)
    \/ \E theme \in ChosenThemes : ChooseTheme(theme)
    \/ \E id \in RewardInputs, by_instance \in BOOLEAN :
         \E choice \in AnchorChoices(id) : UsePowerup(id, by_instance, choice)
SpecAwards == InitAwards /\ [][NextAwards]_vars

(***************************************************************************)
(* Properties.                                                             *)
(***************************************************************************)
Progression == runs # {} /\ ~is_random_mode(rs)

\* C1: in progression mode, while reward offers are pending, a guess request and a
\* skip request leave the guess history, level, secret, score, completed_levels,
\* inventory and pending offers as they were.
C1_RewardGateNoOp ==
    [][(Progression /\ rs.pending_powerups # <<>> /\ last'.op \in {"guess", "skip"})
         => /\ rs'.guesses = rs.guesses
            /\ rs'.level = rs.level
            /\ rs'.secret = rs.secret
            /\ rs'.score = rs.score
            /\ rs'.completed_levels = rs.completed_levels
            /\ rs'.inventory = rs.inventory
            /\ rs'.pending_powerups = rs.pending_powerups]_vars

\* A guess was sent while offers were pending and was answered with the run as it
\* was.
C1_Witness ==
    /\ Progression
    /\ rs.pending_powerups # <<>>
    /\ last = [op |-> "guess", res |-> "gate", form |-> ""]

\* C2: while the theme choice is pending, a guess request appends no guess to the
\* history and awards no score.
C2_ThemeGateNoOp ==
    [][(Progression /\ rs.pending_theme_choice /\ last'.op = "guess")
         => /\ rs'.guesses = rs.guesses
            /\ rs'.score = rs.score]_vars

\* C3: no two entries of a level's guess history hold the same word, and a guess
\* rejected as already guessed, typed in its normal form or in another form (a
\* plural), changes neither the history nor the score.
NoDuplicateWords(guesses) ==
    \A i, j \in 1..Len(guesses) : i # j => guesses[i].word # guesses[j].word

C3_NoDuplicateGuess ==
    [][/\ NoDuplicateWords(rs'.guesses)
       /\ (last'.op = "guess" /\ last'.res = "duplicate")
            => (rs'.guesses = rs.guesses /\ rs'.score = rs.score)]_vars

\* A plural of a word of the history was typed and rejected, in a level whose
\* history holds two words, after the oracle admitted AXE.
C3_Witness ==
    /\ last = [op |-> "guess", res |-> "duplicate", form |-> "variant"]
    /\ Len(rs.guesses) >= 2
    /\ AXE \in word_set

\* C4: completed_levels increases by exactly 1, and only when choose_powerup closes
\* the offers of a won level, when choose_theme closes the theme choice a boss win
\* opened, or when a win whose reward was forfeited advances the run; no skip, no
\* forgiven failure, no use_powerup and no rejected request increases it.
C4_CompletedOnlyOnWin ==
    [][rs'.completed_levels > rs.completed_levels
         => /\ rs'.completed_levels = rs.completed_levels + 1
            /\ Progression
            /\ \/ last'.op = "choose_powerup" /\ won(rs)
               \/ last'.op = "choose_theme" /\ rs.pending_theme_choice
               \/ last'.op = "guess" /\ last'.res = "won" /\ rs.no_powerup_reward]_vars

\* The third level was completed by a win with a forfeited reward, after the first
\* was by choose_powerup and the second, a boss level, by choose_theme.
C4_Witness ==
    /\ last.op = "guess" /\ last.res = "won"
    /\ rs.completed_levels = 3
    /\ rs.level = 4
    /\ rs.pending_powerups = <<>>

\* C5: the inventory never holds more than INVENTORY_CAPACITY rewards, and a
\* choose_powerup request that finds it full is answered without an error and
\* leaves its contents as they were.
C5_InventoryCapacity ==
    [][/\ Len(rs'.inventory) <= INVENTORY_CAPACITY
       /\ (last'.op = "choose_powerup" /\ Len(rs.inventory) >= INVENTORY_CAPACITY)
            => (rs'.inventory = rs.inventory /\ last'.res \notin QuietAnswers)]_vars

\* An offer was chosen while the inventory held three rewards: it was dropped.
C5_Witness ==
    /\ last = [op |-> "choose_powerup", res |-> "full", form |-> ""]
    /\ Len(rs.inventory) = INVENTORY_CAPACITY

\* C6: the offers of a roll, at a win and at a use of reroll_rewards, are pairwise
\* distinct definitions none of which the inventory holds when the roll is made,
\* and as many as were asked for or as there are definitions not held: 4 at a win
\* with expanded choice armed, which the win's roll disarms, 3 at another win, and
\* at a reroll as many as were pending, expanded choice staying as it was.
Distinct(list) == \A i, j \in 1..Len(list) : i # j => list[i] # list[j]
NotHeld(inventory) == Cardinality(Range(POWERUP_POOL) \ Range(inventory))
Offers(offered, inventory, requested) ==
    /\ Distinct(offered)
    /\ Range(offered) \subseteq Range(POWERUP_POOL) \ Range(inventory)
    /\ Len(offered) = Min(requested, NotHeld(inventory))

C6_RollOffers ==
    [][/\ (last'.op = "guess" /\ last'.res = "won" /\ Progression
            /\ ~rs.no_powerup_reward)
            => /\ Offers(rs'.pending_powerups, rs.inventory,
                         IF rs.expanded_choice_levels > 0 THEN 4 ELSE 3)
               /\ rs'.expanded_choice_levels = 0
       /\ (last'.op = "use_powerup" /\ last'.res = "reroll_rewards"
            /\ rs.pending_powerups # <<>>)
            => /\ Offers(rs'.pending_powerups, rs'.inventory, Len(rs.pending_powerups))
               /\ rs'.expanded_choice_levels = rs.expanded_choice_levels]_vars

\* Four offers were rolled at a win with expanded choice armed, and rolled again
\* by reroll_rewards.
C6_Witness ==
    /\ last.op = "use_powerup" /\ last.res = "reroll_rewards"
    /\ Len(rs.pending_powerups) = 4
    /\ rs.expanded_choice_levels = 0

\* C7: the win score of level L with g guesses used is
\* 100 * multiplier(L) + max(0, 6 - g) * 10 * multiplier(L), for every L >= 1 and
\* g >= 0, the bonus being 0 when g > 6; for L = 1 and g = 3 it is 130.
Multiplier(L) ==
    1 + Min(Max(0, (L - 1) \div 3), 5) + (IF L % BOSS_LEVEL_INTERVAL = 0 THEN 4 ELSE 0)

C7_WinScore ==
    fn.f = "score_for_win"
      => /\ fn.out = (100 * Multiplier(fn.level))
                       + (Max(0, 6 - fn.guesses) * 10 * Multiplier(fn.level))
         /\ fn.guesses > 6 => fn.out = 100 * Multiplier(fn.level)
         /\ (fn.level = 1 /\ fn.guesses = 3) => fn.out = 130

\* The score of a win with more than 6 guesses was computed, on a boss level.
C7_Witness ==
    /\ fn.f = "score_for_win"
    /\ fn.guesses > 6
    /\ is_boss_level(fn.level)
    /\ fn.out > 0

\* C9: in random mode a guess equal to the secret leaves a run that takes further
\* guesses against a newly selected secret, with an empty history, no reward
\* offers and no score awarded.
C9_RandomWinReseeds ==
    [][(runs # {} /\ is_random_mode(rs) /\ last'.op = "guess" /\ last'.res = "won")
         => /\ ~guess_closed(rs')
            /\ rs'.guesses = <<>>
            /\ rs'.pending_powerups = <<>>
            /\ rs'.score = rs.score]_vars

\* C10: in random mode a skip request is always taken and leaves the run at level
\* 1 with score 0, no completed level, an empty history, a secret of the random
\* pool, and an empty inventory, no offers and no theme choice pending, in the run
\* and in its snapshot.
C10_RandomSkipResets ==
    [][(runs # {} /\ is_random_mode(rs) /\ last'.op = "skip")
         => /\ last'.res = "reset"
            /\ rs'.level = 1 /\ rs'.score = 0 /\ rs'.completed_levels = 0
            /\ rs'.guesses = <<>>
            /\ ~guess_closed(rs')
            /\ rs'.secret \in RANDOM_WORD_POOL
            /\ rs'.inventory = <<>> /\ rs'.pending_powerups = <<>>
            /\ ~rs'.pending_theme_choice
            /\ run_state_to_dict(rs').inventory = <<>>
            /\ run_state_to_dict(rs').pending_powerups = <<>>
            /\ ~run_state_to_dict(rs').pending_theme_choice
            /\ run_state_to_dict(rs').level = 1
            /\ run_state_to_dict(rs').score = 0]_vars

\* A random-mode run was skipped and is open for guesses again.
C10_Witness ==
    /\ runs # {} /\ is_random_mode(rs)
    /\ last = [op |-> "skip", res |-> "reset", form |-> ""]
    /\ rs.guesses = <<>>

\* C11: normalization is idempotent: normalize_word applied to its own result, with
\* the same known word set, returns that result.
C11_NormalizeIdempotent ==
    fn.f = "normalize_again" => fn.again = fn.out

\* The folded forms of a cleaned word in priority order, without the word itself.
Folds(cleaned) ==
    LET all == Dedupe(PluralCandidates(cleaned), <<>>)
        keep == {i \in 1..Len(all) : all[i] # cleaned}
    IN  IF cleaned \in PLURAL_EXCEPTIONS THEN <<>>
        ELSE SelectIn(all, {all[i] : i \in keep})

\* C12: normalize_word returns the irregular lookup when there is one; otherwise the
\* first folded form that is a known word; and the cleaned uppercase original
\* when no folded form is a known word.
C12_NormalizeResult ==
    fn.f = "normalize_word" =>
        LET cleaned == Upper(Strip(fn.word))
            folds == Folds(cleaned)
            hits == {i \in 1..Len(folds) : folds[i] \in fn.known}
        IN  IF cleaned \in DOMAIN IRREGULAR_PLURALS
            THEN fn.out = IRREGULAR_PLURALS[cleaned]
            ELSE IF hits # {}
            THEN fn.out = folds[CHOOSE i \in hits : \A j \in hits : i <= j]
            ELSE fn.out = cleaned

\* C13: is_valid_guess(w) is true immediately after add_word(w) for an alphabetic
\* w, and is true of every member of word_set whenever it is called.
C13_AddThenValid ==
    [][fn'.f = "is_valid_guess" =>
         /\ (fn.f = "add_word" /\ fn.word = fn'.word /\ IsAlpha(Upper(Strip(fn.word)))
               => fn'.out)
         /\ (fn'.word \in word_set => fn'.out)]_vars

\* is_valid_guess has accepted a word that add_word admitted, with another
\* admitted word in the set.
C13_Witness ==
    /\ fn.f = "is_valid_guess"
    /\ fn.word = JAZZ
    /\ fn.out
    /\ {JAZZ, AXE} \subseteq word_set

\* The percentile table holds exactly the words of ws, the entry at index i with
\* percentile (i-1)/(count-1) over the count of ws.
TableCurrent(ws) ==
    LET n == Len(word_entries)
    IN  /\ {word_entries[i].word : i \in 1..n} = ws
        /\ \A i \in 1..n :
             /\ word_entries[i].num = (IF n > 1 THEN i - 1 ELSE 1)
             /\ word_entries[i].den = (IF n > 1 THEN Cardinality(ws) - 1 ELSE 1)

\* A step that gives a progression run a new secret for a band or boss level,
\* drawn by _select_word_for_level.
SelectionStep ==
    /\ runs' # {}
    /\ ~is_random_mode(rs')
    /\ (rs'.level # rs.level \/ (last'.op = "use_powerup" /\ last'.res = "reroll_target"))
    /\ difficulty_label(difficulty_level(rs')) # "easy"
    /\ word_set' = word_set
    /\ rs'.secret \in {normalize_word(w, word_set) :
                         w \in select_word_for_level(difficulty_level(rs'))}

\* C14: at every band or boss selection the percentile table holds exactly the
\* words of word_set, with percentiles computed over that whole set: a word
\* admitted by add_word is in the table before the next such selection.
C14_NoStalePercentile ==
    [][SelectionStep => TableCurrent(word_set)]_vars

\* The words of the catalog of fn whose percentile is inside band(level).
WordsInBand ==
    {e.word : e \in {x \in Range(build_word_entries(dedupe_preserve(fn.catalog))) :
                        InBand(x, difficulty_band(fn.level))}}

\* C15 as stated: the word chosen by select(L) has a percentile inside band(L); only
\* when no entry has a percentile inside band(L) may any catalog word be returned.
C15_SelectInBand ==
    fn.f = "select_word_for_level" =>
        IF WordsInBand # {} THEN fn.out \in WordsInBand ELSE fn.out \in Range(fn.catalog)

\* C15 amended: on a level labelled easy with an easy-word list the chosen word is a
\* member of that list; on every other level it has a percentile inside band(L),
\* or is any catalog word when no entry has a percentile inside band(L).
C15_SelectInBandUnlessEasy ==
    fn.f = "select_word_for_level" =>
        IF difficulty_label(fn.level) = "easy" /\ fn.easy
        THEN fn.out \in Range(load_easy_words(fn.catalog))
        ELSE IF WordsInBand # {} THEN fn.out \in WordsInBand
        ELSE fn.out \in Range(fn.catalog)

\* A selection on a band level of a catalog where the band holds some of the words
\* and not all of them.
C15_Witness ==
    /\ fn.f = "select_word_for_level"
    /\ difficulty_label(fn.level) \notin {"easy", "boss"}
    /\ WordsInBand # {}
    /\ WordsInBand # Range(fn.catalog)
    /\ fn.out \in WordsInBand

\* C16 as stated: the score multiplier is non-decreasing in the level.
C16_MultiplierMonotone ==
    fn.f = "difficulty_multiplier" /\ fn.level <= fn.later => fn.out <= fn.out_later

\* C16 amended: for levels L1 <= L2 the multiplier of L1 is at most that of L2,
\* unless L1 is a boss level and L2 is not; and the multiplier of a boss level L2
\* is strictly larger than that of a level L1 that is not a boss level.
C16_MultiplierMonotoneByKind ==
    fn.f = "difficulty_multiplier" /\ fn.level <= fn.later =>
        /\ (is_boss_level(fn.level) /\ ~is_boss_level(fn.later)) \/ fn.out <= fn.out_later
        /\ (~is_boss_level(fn.level) /\ is_boss_level(fn.later)) => fn.out < fn.out_later

\* The multipliers of a level of a higher tier and of an earlier level of a lower
\* tier, neither a boss level, have been computed.
C16_Witness ==
    /\ fn.f = "difficulty_multiplier"
    /\ fn.level < fn.later
    /\ ~is_boss_level(fn.level) /\ ~is_boss_level(fn.later)
    /\ level_tier(fn.level) < level_tier(fn.later)
    /\ fn.out < fn.out_later

\* The similarity of a guess to a secret, and the candidates of the catalog that
\* are strictly more similar to the secret than the guess is.
Similarity(guess, secret) == Dot(Embed(secret), Embed(guess))
CloserCandidates(guess, secret) ==
    {i \in 1..Len(WORDS) : Similarity(WORDS[i], secret) > Similarity(guess, secret)}

\* C17: rank_guess(g, s) is (1, 1.0) when g equals s ignoring case and surrounding
\* whitespace; otherwise its rank is 1 + the number of catalog candidates strictly
\* more similar to s than g is, whether the index of s was cached or is built by
\* the call; and of two calls for the same secret, the one with the greater
\* similarity has the rank that is not greater.
C17_RankGuess ==
    [][fn'.f = "rank_guess" =>
         /\ IF Upper(Strip(fn'.guess)) = Upper(Strip(fn'.secret))
            THEN fn'.out = <<1, EXACT_SIMILARITY>>
            ELSE fn'.out = <<1 + Cardinality(CloserCandidates(fn'.guess, fn'.secret)),
                             Similarity(fn'.guess, fn'.secret)>>
         /\ (fn.f = "rank_guess" /\ fn.secret = fn'.secret /\ fn'.out[2] > fn.out[2]
               => fn'.out[1] <= fn.out[1])]_vars

\* A guess that is not the secret has been ranked behind a candidate with an index
\* read from the cache, which holds the index of another secret too.
C17_Witness ==
    /\ fn.f = "rank_guess"
    /\ fn.cached
    /\ Cardinality(DOMAIN fn.cache) >= 2
    /\ Upper(Strip(fn.guess)) # Upper(Strip(fn.secret))
    /\ fn.out[1] >= 2

\* The runs a guess request may leave when it is handled from its first statement
\* to its last with no other request in between.
GuessAlone(r, word) ==
    LET guess == Upper(Strip(word))
    IN  IF guess_closed(r) \/ ~is_valid_guess(guess, word_set, normalized_word_set)
        THEN {r}
        ELSE {momentum_spent(o.rs, Len(r.guesses)) :
                o \in gm_submit_guess(r, guess, word_set, normalized_word_set,
                                      scope.rewards)}
OneAfterTheOther(r, first, second) ==
    UNION {GuessAlone(r1, second) : r1 \in GuessAlone(r, first)}

\* C18: two guess requests for the same run, handled by different worker threads,
\* leave the run as one of the two sequential orders of the requests does: no
\* word is appended to the history twice and a win awards score and rolls rewards
\* once.
C18_GuessesSerialize ==
    (fn.f = "guess" /\ \A t \in Threads : fn.pc[t] = "done") =>
        /\ rs \in OneAfterTheOther(fn.start, fn.word[1], fn.word[2])
                    \cup OneAfterTheOther(fn.start, fn.word[2], fn.word[1])
        /\ NoDuplicateWords(rs.guesses)
        /\ rs.score <= fn.start.score
                         + score_for_win(difficulty_level(fn.start), Len(rs.guesses))

\* The catalogs two add_word calls lead through, from the loaded one on.
CatalogStages ==
    {Range(words) \cup added : added \in SUBSET {Upper(Strip(fn.word[t])) : t \in Threads}}

\* C19: add_word is safe under concurrency.  No reader observes a partially
\* rebuilt table: the table a reader of is_valid_guess sees is the complete
\* table of one of the catalogs the adds lead through.  And once every
\* add_word call has returned, every word added is accepted by
\* is_valid_guess: no rebuild has overwritten a newer table with one built
\* from an older snapshot.
C19_AddWordSafe ==
    fn.f = "add_word" =>
        /\ fn.read # NoRead =>
              fn.read.table \in {rebuild_normalized_word_set(ws) : ws \in CatalogStages}
        /\ (\A t \in Threads : fn.pc[t] = "done") =>
              \A t \in Threads :
                  is_valid_guess(fn.word[t], word_set, normalized_word_set)

\* A guess the handler must refuse: empty, not alphabetic, or with a normal
\* form outside the known words and not admitted by the oracle.
Unacceptable(word, oracle_up) ==
    LET guess == Upper(Strip(word))
    IN  \/ guess = NoWord
        \/ ~IsAlpha(guess)
        \/ /\ normalize_word(guess, word_set) \notin normalized_word_set
           /\ ~(oracle_up /\ guess \in ORACLE_WORDS)

\* C20: a guess on an active level that is empty, not alphabetic, or unknown
\* and not admitted by the oracle is answered with the error ("400"), not
\* with a game-state answer, and leaves the run's guesses, best_rank, score,
\* level, gates and similarity_reveal_remaining as they were (and the
\* catalog too).
C20_RejectedGuess ==
    [][(/\ fn' # fn
        /\ fn'.f = "guess"
        /\ runs # {}
        /\ ~guess_closed(rs)
        /\ Unacceptable(fn'.word, fn'.oracle_up))
       => /\ fn'.res = "400"
          /\ rs'.guesses = rs.guesses
          /\ rs'.best_rank = rs.best_rank
          /\ rs'.score = rs.score
          /\ rs'.level = rs.level
          /\ rs'.completed_levels = rs.completed_levels
          /\ rs'.pending_powerups = rs.pending_powerups
          /\ rs'.pending_theme_choice = rs.pending_theme_choice
          /\ rs'.similarity_reveal_remaining = rs.similarity_reveal_remaining
          /\ word_set' = word_set]_vars

\* An unknown word was refused on a level that already has guesses.
C20_Witness ==
    /\ fn.f = "guess"
    /\ fn.word = JAZZ
    /\ fn.res = "400"
    /\ rs.guesses # <<>>
    /\ ~guess_closed(rs)

\* C21: an accepted guess that misses the secret and brings the level's guesses
\* to the allowed attempt count (DEFAULT_MAX_GUESSES) marks the level failed, and
\* every further guess on the level is a no-op: a level never holds more guesses
\* than the attempt count, and one that holds that many was won or is failed.
C21_AttemptLimit ==
    runs # {} =>
        /\ Len(rs.guesses) <= DEFAULT_MAX_GUESSES
        /\ (Len(rs.guesses) = DEFAULT_MAX_GUESSES /\ ~won(rs)) => failed(rs)

\* C22: a failure that is not forgiven is terminal for the level until skip.
\* In progression mode, while the level is failed, a guess request and a
\* use_powerup request leave the run as it was, and a skip request on a level
\* that is not a boss level, with the cooldown elapsed and no gate pending,
\* advances the run to the next level with the failed flag cleared.
C22_FailedUntilSkip ==
    [][(Progression /\ failed(rs))
         => /\ last'.op \in {"guess", "use_powerup"} => rs' = rs
            /\ (/\ last'.op = "skip"
                /\ ~rs.boss_level
                /\ skip_in_levels(rs) = 0
                /\ rs.pending_powerups = <<>>
                /\ ~rs.pending_theme_choice
                /\ ~won(rs))
               => /\ rs'.level = rs.level + 1
                  /\ ~failed(rs')]_vars

\* C23: a failure while safety_net_levels > 0 is forgiven exactly once per net.
\* In progression mode a fail request with a net active is answered "saved": the
\* run advances to the next level with the failed flag not set, completed_levels
\* and score unchanged, no reward offered and safety_net_levels 0; a fail request
\* with no net active sets the failed flag and stays on the level.  Using the
\* safety_net reward arms at least 3 levels, every other advance takes one level
\* off an active net, and nothing else changes it: an unused net armed with 3
\* lapses after 3 advances.
C23_SafetyNet ==
    [][Progression
         => /\ (last'.op = "fail" /\ rs.safety_net_levels > 0)
               => /\ last'.res = "saved"
                  /\ rs'.level = rs.level + 1
                  /\ ~failed(rs')
                  /\ rs'.completed_levels = rs.completed_levels
                  /\ rs'.score = rs.score
                  /\ rs'.pending_powerups = <<>>
                  /\ ~rs'.pending_theme_choice
                  /\ rs'.safety_net_levels = 0
            /\ (last'.op = "fail" /\ rs.safety_net_levels = 0)
               => /\ failed(rs')
                  /\ rs'.level = rs.level
                  /\ rs'.safety_net_levels = 0
            /\ (last'.op = "use_powerup" /\ last'.res = "safety_net")
               => /\ rs'.safety_net_levels = Max(rs.safety_net_levels, 3)
                  /\ rs'.level = rs.level
            /\ (last'.op # "fail" /\ rs'.level = rs.level + 1)
               => rs'.safety_net_levels = Max(0, rs.safety_net_levels - 1)
            /\ (last'.op # "fail" /\ rs'.level = rs.level
                  /\ ~(last'.op = "use_powerup" /\ last'.res = "safety_net"))
               => rs'.safety_net_levels = rs.safety_net_levels]_vars

\* A failure was forgiven: the run is on a later level, not failed, with no net
\* left and nothing offered.
C23_Witness ==
    /\ Progression
    /\ last = [op |-> "fail", res |-> "saved", form |-> ""]
    /\ rs.level > 1
    /\ rs.safety_net_levels = 0
    /\ ~failed(rs)
    /\ rs.pending_powerups = <<>>

\* C24: in every reachable progression-mode state the run's difficulty label and
\* boss flag are the difficulty model's label and boss test of the run's current
\* level number, at the start and after every advance.
C24_LevelSettings ==
    Progression
      => /\ rs.difficulty = difficulty_label(rs.level)
         /\ rs.boss_level = is_boss_level(rs.level)

\* The levels L+1..L+c after a skip at level L = last_skip_level, c being the
\* effective cooldown.
Cooling(r) ==
    r.level - r.last_skip_level
        <= Max(0, r.skip_cooldown_levels - r.skip_cooldown_reduction_value)

\* C25: in progression mode a skip request is a no-op on a boss level and while
\* the cooldown has not elapsed, that is on the levels L+1..L+c after a skip that
\* took effect at level L with effective cooldown c; on any other level of a run
\* that is neither gated, won nor failed (level 1 of a fresh run, the first level
\* past L+c that is not a boss level) it takes effect.
C25_SkipCooldown ==
    [][(Progression /\ last'.op = "skip")
         => /\ (is_boss_level(rs.level) \/ Cooling(rs)) => rs' = rs
            /\ (/\ ~is_boss_level(rs.level)
                /\ ~Cooling(rs)
                /\ rs.pending_powerups = <<>>
                /\ ~rs.pending_theme_choice
                /\ ~won(rs)
                /\ ~failed(rs))
               => rs'.level = rs.level + 1]_vars

\* C26: a skip that takes effect in progression mode sets last_skip_level to the
\* level skipped and raises the level by exactly one; it leaves completed_levels,
\* the score and the inventory as they were and no offers pending.
C26_SkipEffect ==
    [][(Progression /\ last'.op = "skip" /\ last'.res = "skipped")
         => /\ rs'.last_skip_level = rs.level
            /\ rs'.level = rs.level + 1
            /\ rs'.completed_levels = rs.completed_levels
            /\ rs'.score = rs.score
            /\ rs'.inventory = rs.inventory
            /\ rs'.pending_powerups = <<>>]_vars

\* A skip took effect in a run that holds a reward and a score.
C26_Witness ==
    /\ Progression
    /\ last = [op |-> "skip", res |-> "skipped", form |-> ""]
    /\ rs.last_skip_level = rs.level - 1
    /\ rs.inventory # <<>>
    /\ rs.score > 0
    /\ rs.completed_levels > 0

\* A choose_powerup request that names a pending offer and finds its definition
\* held or the inventory at capacity.  Offers are rolled from the definitions the
\* inventory does not hold, and the inventory gains a reward only by the choice
\* that clears the offers: no run reaches an offer whose definition is held, and
\* the discards explored are those of an inventory at capacity.
Discards ==
    /\ Progression
    /\ rs.pending_powerups # <<>>
    /\ last'.op = "choose_powerup"
    /\ last'.res = "duplicate" \/ Len(rs.inventory) >= INVENTORY_CAPACITY

C28_ChooseKeeps ==
    [][Progression
         => /\ (/\ rs.pending_powerups # <<>>
                /\ last'.op = "choose_powerup"
                /\ last'.res # "unavailable"
                /\ Len(rs.inventory) < INVENTORY_CAPACITY
                /\ Range(rs.pending_powerups) \cap Range(rs.inventory) = {})
               => /\ last'.res = "added"
                  /\ \E i \in 1..Len(rs.pending_powerups) :
                       rs'.inventory = Append(rs.inventory, rs.pending_powerups[i])
                  /\ rs'.pending_powerups = <<>>
                  /\ ~rs.pending_theme_choice
                       => /\ rs'.level = rs.level + 1
                          /\ rs'.completed_levels = rs.completed_levels + 1
            /\ (rs.pending_theme_choice /\ last'.op # "choose_theme")
               => /\ rs'.level = rs.level
                  /\ rs'.completed_levels = rs.completed_levels
            /\ (last'.op = "choose_powerup" /\ last'.res = "unavailable")
               => /\ rs'.pending_powerups = rs.pending_powerups
                  /\ rs'.inventory = rs.inventory]_vars

\* C29: in progression mode choose_theme with a theme gate pending and a theme id
\* among the offered options clears the theme gate, sets the run's theme_id to
\* the chosen id and advances the level as completed (level and completed_levels
\* each increase by one); with no theme gate pending it leaves theme_id, level
\* and completed_levels unchanged.
C29_ChooseTheme ==
    [][\A theme \in Range(THEMES) :
         (Progression /\ last'.op = "choose_theme" /\ ChooseTheme(theme))
           => /\ (rs.pending_theme_choice /\ theme \in rs.theme_options)
                 => /\ last'.res = "chosen"
                    /\ ~rs'.pending_theme_choice
                    /\ rs'.theme_id = theme
                    /\ rs'.level = rs.level + 1
                    /\ rs'.completed_levels = rs.completed_levels + 1
              /\ ~rs.pending_theme_choice
                 => /\ rs'.theme_id = rs.theme_id
                    /\ rs'.level = rs.level
                    /\ rs'.completed_levels = rs.completed_levels]_vars

\* A theme was chosen after a boss win: the run plays the next level with it.
C29_Witness ==
    /\ Progression
    /\ last = [op |-> "choose_theme", res |-> "chosen", form |-> ""]
    /\ rs.theme_id = "food"
    /\ rs.level = 3
    /\ rs.completed_levels = 2
    /\ ~rs.pending_theme_choice

\* C30: in progression mode a level that is won has a gate pending.  A winning
\* guess (one whose reward was not forfeited by a reroll of the target) arms
\* non-empty offers, with no theme gate on a level that is not a boss level and
\* with the theme gate on a boss level; and the theme gate is never pending on a
\* level that is not a boss level.
C30_WonIsGated ==
    [][/\ (Progression /\ won(rs))
            => (rs.pending_powerups # <<>> \/ rs.pending_theme_choice)
       /\ (Progression /\ rs.pending_theme_choice) => is_boss_level(rs.level)
       /\ (/\ Progression
           /\ last'.op = "guess"
           /\ last'.res = "won"
           /\ ~rs.no_powerup_reward)
          => /\ rs'.pending_powerups # <<>>
             /\ rs'.pending_theme_choice = is_boss_level(rs.level)]_vars

\* The fields of a level are those of a level that has just started.
LevelStarted(r) ==
    /\ r.guesses = <<>>
    /\ r.best_rank = 0
    /\ r.pending_powerups = <<>>
    /\ ~r.pending_theme_choice
    /\ ~failed(r)
    /\ r.anchor_word = NoWord
    /\ r.anchor_rank = 0
    /\ ~r.momentum_bonus_active
    /\ r.momentum_bonus_value = 0

\* C31: in progression mode every request that advances the level (choose_powerup,
\* choose_theme, skip, a forgiven failure, a win whose reward was forfeited) leaves
\* the per-level fields reset: no guesses, no best rank, no pending offers, no
\* theme gate, not failed, no anchor, no momentum bonus.  The score is the one
\* before the request, and the inventory is the one the advance found: that of
\* before the request, with the chosen reward appended when choose_powerup kept it.
C31_AdvanceResets ==
    [][(Progression /\ rs'.level # rs.level)
         => /\ last'.op \in {"choose_powerup", "choose_theme", "skip", "fail", "guess"}
            /\ LevelStarted(rs')
            /\ rs'.score = rs.score
            /\ IF last'.op = "choose_powerup" /\ last'.res = "added"
               THEN \E i \in 1..Len(rs.pending_powerups) :
                      rs'.inventory = Append(rs.inventory, rs.pending_powerups[i])
               ELSE rs'.inventory = rs.inventory]_vars

\* A failure was forgiven on the third level of a run that holds a score and an
\* anchor reward: the fourth level has started.
C31_Witness ==
    /\ Progression
    /\ last = [op |-> "fail", res |-> "saved", form |-> ""]
    /\ rs.level = 4
    /\ rs.score > 0
    /\ "anchor_guess" \in Range(rs.inventory)
    /\ LevelStarted(rs)

\* C32: in progression mode every request that advances the level leaves
\* skip_cooldown_reduction_levels one lower when it was positive and at zero when it
\* was zero, and resets skip_cooldown_reduction_value to zero when the counter
\* reaches zero; it leaves safety_net_levels one lower when positive (a forgiven
\* failure has spent the net before it advances: the advance finds it at zero).
\* Neither counter is ever negative, and in every reachable state
\* skip_cooldown_reduction_value is positive exactly when
\* skip_cooldown_reduction_levels is.
C32_CountersDecay ==
    [][/\ rs.skip_cooldown_reduction_levels >= 0
       /\ rs.safety_net_levels >= 0
       /\ (rs.skip_cooldown_reduction_value > 0) <=> (rs.skip_cooldown_reduction_levels > 0)
       /\ (rs'.skip_cooldown_reduction_value > 0) <=> (rs'.skip_cooldown_reduction_levels > 0)
       /\ (Progression /\ rs'.level # rs.level)
            => /\ rs'.skip_cooldown_reduction_levels =
                    Max(0, rs.skip_cooldown_reduction_levels - 1)
               /\ rs'.skip_cooldown_reduction_value =
                    IF rs'.skip_cooldown_reduction_levels = 0 THEN 0
                    ELSE rs.skip_cooldown_reduction_value
               /\ rs'.safety_net_levels =
                    IF last'.op = "fail" THEN 0 ELSE Max(0, rs.safety_net_levels - 1)]_vars

\* A reducer armed on the second level has one level left on the sixth, with a
\* safety net armed later still counting.
C32_Witness ==
    /\ Progression
    /\ rs.level = 6
    /\ rs.skip_cooldown_reduction_levels = 1
    /\ rs.skip_cooldown_reduction_value = 1
    /\ rs.safety_net_levels = 2

\* C33: in progression mode a guess that is accepted (appended to the history, a
\* winning one included) is recorded with show_similarity set exactly when
\* similarity_reveal_remaining was positive before it, and then the counter is one
\* lower; a guess that is rejected, already guessed or sent while a gate is closed
\* leaves the counter as it was; using similarity_reveal raises the counter to its
\* value 3 unless it was higher; no other request changes the counter, and it is
\* never negative.  So of the guesses accepted after a use that found the counter
\* at 0, the first 3 are revealed and the fourth is not.
C33_RevealCounter ==
    [][Progression
         => /\ rs.similarity_reveal_remaining >= 0
            /\ rs'.similarity_reveal_remaining >= 0
            /\ IF last'.op = "guess" /\ last'.res \in {"accepted", "won"}
               THEN /\ rs'.similarity_reveal_remaining =
                         Max(0, rs.similarity_reveal_remaining - 1)
                    /\ Len(rs'.guesses) = Len(rs.guesses) + 1
                         => rs'.guesses[Len(rs'.guesses)].show_similarity
                              = (rs.similarity_reveal_remaining > 0)
               ELSE IF last'.op = "use_powerup" /\ last'.res = "similarity_reveal"
               THEN rs'.similarity_reveal_remaining =
                         Max(rs.similarity_reveal_remaining, POWERUP_VALUE("similarity_reveal"))
               ELSE rs'.similarity_reveal_remaining = rs.similarity_reveal_remaining]_vars

\* The reward was used on the second level with the counter at 0 and two guesses
\* were accepted there: on the third level the first guess is revealed, the second
\* is not, and the counter is back at 0.
C33_Witness ==
    /\ Progression
    /\ rs.level = 3
    /\ rs.inventory = <<>>
    /\ rs.completed_levels = 2
    /\ Len(rs.guesses) = 2
    /\ rs.guesses[1].show_similarity
    /\ ~rs.guesses[2].show_similarity
    /\ rs.similarity_reveal_remaining = 0

\* C34: in progression mode use_powerup changes nothing of the run while offers or
\* the theme choice are pending (unless the reward used is reroll_rewards), on a
\* failed level and with an empty inventory; a use that takes effect removes from
\* the inventory exactly one reward, the one the request named, and changes
\* neither level nor completed_levels.
C34_UseForbidden ==
    [][(Progression /\ last'.op = "use_powerup")
         => /\ ((rs.pending_powerups # <<>> \/ rs.pending_theme_choice)
                 /\ last'.res # "reroll_rewards") => rs' = rs
            /\ failed(rs) => rs' = rs
            /\ rs.inventory = <<>> => rs' = rs
            /\ rs' # rs
                 => /\ \E idx \in 1..Len(rs.inventory) :
                         /\ rs.inventory[idx] = last'.res
                         /\ rs'.inventory = RemoveAt(rs.inventory, idx)
                    /\ rs'.level = rs.level
                    /\ rs'.completed_levels = rs.completed_levels]_vars

\* C35: in progression mode using reroll_target draws the secret anew, clears the
\* guess history, best_rank and the anchor, leaves the level as it is and forfeits
\* the level's reward.  The next win on that level awards no score and rolls no
\* offers: on a level that is not a boss level the run advances at once as
\* completed, on a boss level only the theme gate is armed.  The forfeit lasts until
\* that win or until the level changes, and no level starts with it.
C35_RerollForfeits ==
    [][Progression
         => /\ (last'.op = "use_powerup" /\ last'.res = "reroll_target")
               => /\ rs'.guesses = <<>>
                  /\ rs'.best_rank = 0
                  /\ rs'.anchor_word = NoWord
                  /\ rs'.anchor_rank = 0
                  /\ rs'.level = rs.level
                  /\ rs'.completed_levels = rs.completed_levels
                  /\ rs'.no_powerup_reward
            /\ (rs.no_powerup_reward /\ last'.op = "guess" /\ last'.res = "won")
               => /\ rs'.score = rs.score
                  /\ rs'.pending_powerups = <<>>
                  /\ ~rs'.no_powerup_reward
                  /\ IF is_boss_level(rs.level)
                     THEN /\ rs'.level = rs.level
                          /\ rs'.completed_levels = rs.completed_levels
                          /\ rs'.pending_theme_choice
                     ELSE /\ rs'.level = rs.level + 1
                          /\ rs'.completed_levels = rs.completed_levels + 1
                          /\ ~rs'.pending_theme_choice
            /\ (rs.no_powerup_reward /\ ~rs'.no_powerup_reward)
               => (rs'.level # rs.level \/ (last'.op = "guess" /\ last'.res = "won"))
            /\ rs'.level # rs.level => ~rs'.no_powerup_reward]_vars

\* C36: between two level advances of a progression run at most one guess raises
\* the score, whatever rewards are used in between: no level sees a second award.
C36_OneAwardPerLevel == Progression => fn.out <= 1

\* C37: in progression mode, once offers are pending, only choose_powerup empties
\* pending_powerups; a use of reroll_rewards replaces the offers by as many offers;
\* choose_theme and fail leave the pending offers as they were.
C37_OffersKept ==
    [][(Progression /\ rs.pending_powerups # <<>>)
         => /\ rs'.pending_powerups = <<>> => last'.op = "choose_powerup"
            /\ (last'.op = "use_powerup" /\ last'.res = "reroll_rewards")
                 => Len(rs'.pending_powerups) = Len(rs.pending_powerups)
            /\ last'.op \in {"choose_theme", "fail"}
                 => rs'.pending_powerups = rs.pending_powerups]_vars

\* C38: in every reachable state with a run, the secret is its own normal form
\* under the word set and belongs to normalized_word_set, so that a guess of the
\* secret is accepted and wins the level; this holds for the secrets the word
\* provider supplies and after add_word has changed the word set.
C38_SecretGuessable ==
    runs # {}
      => /\ normalize_word(rs.secret, word_set) = rs.secret
         /\ rs.secret \in normalized_word_set

\* C39: in every reachable state the definition ids of the rewards in the inventory
\* are pairwise distinct.
C39_InventoryDistinct == Distinct(rs.inventory)

\* Three rewards were won and kept, the reroll of the offers last: the inventory is
\* at capacity.
C39_Witness ==
    /\ Progression
    /\ last = [op |-> "choose_powerup", res |-> "added", form |-> ""]
    /\ Len(rs.inventory) = INVENTORY_CAPACITY
    /\ rs.inventory[INVENTORY_CAPACITY] = "reroll_rewards"

\* The levels of a run that were left without being completed.
Uncompleted(r) == r.level - 1 - r.completed_levels

\* C40: in every reachable state level is at least 1 and completed_levels lies
\* between 0 and level - 1.  In progression mode no request lowers the level or
\* raises it by more than one, and level - 1 - completed_levels counts the levels
\* skipped or forgiven: it is 0 when the run starts, one more after a skip or a
\* forgiven failure that advances, and unchanged by every other request.
C40_LevelCounts ==
    [][/\ rs.level >= 1
       /\ rs'.level >= 1
       /\ rs'.completed_levels >= 0
       /\ rs'.completed_levels <= rs'.level - 1
       /\ last'.op = "start" => Uncompleted(rs') = 0
       /\ Progression
            => /\ rs'.level \in {rs.level, rs.level + 1}
               /\ Uncompleted(rs') =
                    IF \/ (last'.op = "skip" /\ last'.res = "skipped")
                       \/ (last'.op = "fail" /\ last'.res = "saved")
                    THEN Uncompleted(rs) + 1
                    ELSE Uncompleted(rs)]_vars

\* A run skipped one level, completed one and had a failure forgiven on the third.
C40_Witness ==
    /\ Progression
    /\ rs.level = 4
    /\ rs.completed_levels = 1
    /\ rs.last_skip_level = 1
    /\ last = [op |-> "fail", res |-> "saved", form |-> ""]

====
